---- MODULE Spec2Model ----
(***************************************************************************)
(* A model of the statistical core of thille6/thebetcalc:                  *)
(*   src/lib/poisson/poisson.ts                                            *)
(*     poissonPmf, computeOutcomeProbs, computeLambdasFromMatches,         *)
(*     calculatePoissonPrediction                                          *)
(* and of the endpoints built on it:                                       *)
(*   src/app/api/poisson/route.ts  (POST /api/poisson)                     *)
(*   src/app/api/match/route.ts    (GET /api/match)                        *)
(*   src/lib/cache/memoryCache.ts  (the cache both read and write)         *)
(*   src/lib/apisports/client.ts   (apiSportsGet, the provider call)       *)
(*                                                                         *)
(* JavaScript numbers are modelled as exact rationals <<n, d>> (d > 0, in  *)
(* lowest terms).  Math.exp(-x) is kept symbolic: a probability is a pair  *)
(* [c |-> rational, x |-> rational] that stands for c * e^(-x).            *)
(***************************************************************************)
EXTENDS Integers, Sequences, FiniteSets, TLC

VARIABLES
    \* computeLambdasFromMatches(matches, teamId, mode)
    matches, teamId, mode, filteredMatches, totalGoals, matchCount, lamPc, lamResult,
    \* poissonPmf(lambda, k)
    lambda, k, i, probability, pmfPc, pmfResult,
    \* computeOutcomeProbs(lambdaHome, lambdaAway, maxGoals)
    lambdaHome, lambdaAway, maxGoals, homeGoals, awayGoals,
    pHomeWin, pDraw, pAwayWin, pOver15, pOver25, outPc,
    \* calculatePoissonPrediction(lambdaHome, lambdaAway, maxGoals)
    prediction,
    \* POST /api/poisson: the request, the environment, the handler's locals
    body, apiKey, now, cache, routePc, fixture, history, events,
    mostLikelyScore, response,
    \* the cache on its own: the last call made on it and, per key, the last
    \* set not yet deleted or cleared
    cacheOp, lastSet,
    \* two POST /api/poisson requests in flight together: each one's position
    \* and locals, and the answers the provider has given per team
    \* and, per team, the requests that wrote its cache entry, in order
    reqs, answered, writes,
    \* GET /api/match: the requests made, and the results stored in the cache,
    \* in order
    mreqs, stores,
    \* apiSportsGet(path, params): the environment's key, the time since the
    \* call, the timer, the abort signal, the two promises awaited, the
    \* position in the function and what the call settled with
    envKey, elapsed, timeoutId, aborted, fetchPromise, bodyPromise, callPc, outcome

lamVars == <<matches, teamId, mode, filteredMatches, totalGoals, matchCount, lamPc, lamResult>>
pmfVars == <<lambda, k, i, probability, pmfPc, pmfResult>>
outVars == <<lambdaHome, lambdaAway, maxGoals, homeGoals, awayGoals,
             pHomeWin, pDraw, pAwayWin, pOver15, pOver25, outPc, prediction>>
routeVars == <<body, apiKey, now, cache, routePc, fixture, history, events,
               mostLikelyScore, response>>
cacheVars == <<cacheOp, lastSet>>
pairVars == <<reqs, answered, writes>>
matchVars == <<mreqs, stores>>
clientVars == <<envKey, elapsed, timeoutId, aborted, fetchPromise, bodyPromise, callPc, outcome>>
sysVars == <<cacheVars, pairVars, matchVars, clientVars>>
vars == <<lamVars, pmfVars, outVars, routeVars, sysVars>>

----------------------------------------------------------------------------
(* Bounds of the explored inputs *)

MaxMatches == 3
NumTeams == 3
MaxGoal == 1
\* rates are the multiples n / LambdaDen, n up to MaxLambdaNum
LambdaDen == 2
MaxLambdaNum == 4
MaxK == 4
MaxMaxGoals == 2

----------------------------------------------------------------------------
(* Exact rational arithmetic for JavaScript numbers *)

Abs(n) == IF n < 0 THEN -n ELSE n

\* Euclid's algorithm on naturals
Gcd(a, b) ==
    LET euclid[p \in Nat \X Nat] ==
            IF p[2] = 0 THEN p[1] ELSE euclid[<<p[2], p[1] % p[2]>>]
    IN  euclid[<<a, b>>]

\* n / d in lowest terms with a positive denominator (d # 0)
Rat(n, d) ==
    LET g == Gcd(Abs(n), Abs(d))
        s == IF d < 0 THEN -1 ELSE 1
    IN  <<(s * n) \div g, (s * d) \div g>>

RMul(p, q) ==
    LET g1 == Gcd(Abs(p[1]), q[2])
        g2 == Gcd(Abs(q[1]), p[2])
    IN  Rat((p[1] \div g1) * (q[1] \div g2), (p[2] \div g2) * (q[2] \div g1))

RDiv(p, q) == RMul(p, Rat(q[2], q[1]))

RAdd(p, q) ==
    LET g == Gcd(p[2], q[2])
    IN  Rat(p[1] * (q[2] \div g) + q[1] * (p[2] \div g), p[2] * (q[2] \div g))

RLess(p, q) ==
    LET g == Gcd(p[2], q[2])
    IN  p[1] * (q[2] \div g) < q[1] * (p[2] \div g)

RLeq(p, q) == p = q \/ RLess(p, q)

\* A number of the form c * e^(-x); zero is kept as 0 * e^(-0)
Zero == [c |-> <<0, 1>>, x |-> <<0, 1>>]
One == [c |-> <<1, 1>>, x |-> <<0, 1>>]

Normal(v) == IF v.c[1] = 0 THEN Zero ELSE v

\* Math.exp(-x)
ExpNeg(x) == [c |-> <<1, 1>>, x |-> x]

\* v * r for a rational r
PScale(v, r) == Normal([c |-> RMul(v.c, r), x |-> v.x])

\* v * w
PMul(v, w) == Normal([c |-> RMul(v.c, w.c), x |-> RAdd(v.x, w.x)])

\* v + w, for summands with the same exponent (or zero)
PAdd(v, w) ==
    CASE v = Zero -> w
      [] v # Zero /\ w = Zero -> v
      [] v # Zero /\ w # Zero /\ v.x = w.x -> Normal([c |-> RAdd(v.c, w.c), x |-> v.x])

PLess(v, w) ==
    CASE v = Zero -> RLess(v.c, w.c)
      [] v # Zero /\ w = Zero -> RLess(v.c, w.c)
      [] v # Zero /\ w # Zero /\ v.x = w.x -> RLess(v.c, w.c)

PLeq(v, w) == v = w \/ PLess(v, w)

----------------------------------------------------------------------------
(* types.ts: FixtureSummary, restricted to the fields the estimator reads *)

Null == -1
NoStatus == "undefined"
Teams == 1..NumTeams
\* full time, after extra time, after penalties, first half (live), not started
Statuses == {"FT", "AET", "PEN", "1H", "NS", NoStatus}
GoalCounts == {Null} \cup (0..MaxGoal)
LambdaModes == {"HOME_ONLY", "AWAY_ONLY", "ALL"}

FixtureSummary ==
    { [home |-> h, away |-> a, status |-> s, goalsHome |-> gh, goalsAway |-> ga] :
        h \in Teams, a \in Teams, s \in Statuses, gh \in GoalCounts, ga \in GoalCounts }


\* The explored histories hold records that differ from one ordinary finished
\* match (team 1 at home to team 2, full time, 1-0) in at most one field.
BaselineMatch ==
    [home |-> 1, away |-> 2, status |-> "FT", goalsHome |-> 1, goalsAway |-> 0]

Differences(m) ==
    { f \in {"home", "away", "status", "goalsHome", "goalsAway"} : m[f] # BaselineMatch[f] }

HistoryRecords ==
    { m \in FixtureSummary : m.home # m.away /\ Cardinality(Differences(m)) <= 1 }

Histories == UNION { [1..n -> HistoryRecords] : n \in 0..MaxMatches }

----------------------------------------------------------------------------
(* The three functions are explored one at a time; the others stay idle *)

LamIdle ==
    /\ matches = <<>> /\ teamId = 1 /\ mode = "ALL" /\ filteredMatches = <<>>
    /\ totalGoals = 0 /\ matchCount = 0 /\ lamPc = "idle"
    /\ lamResult = [kind |-> "none", rate |-> <<0, 1>>, what |-> "", need |-> 0, got |-> 0]

PmfIdle ==
    /\ lambda = <<0, 1>> /\ k = 0 /\ i = 0 /\ probability = Zero
    /\ pmfPc = "idle" /\ pmfResult = Zero

\* no prediction returned (yet)
NoPrediction ==
    [homeWin |-> Zero, draw |-> Zero, awayWin |-> Zero,
     expectedGoals |-> [home |-> <<0, 1>>, away |-> <<0, 1>>],
     scoreMatrix |-> <<>>]

OutIdle ==
    /\ prediction = NoPrediction
    /\ lambdaHome = <<0, 1>> /\ lambdaAway = <<0, 1>> /\ maxGoals = 0
    /\ homeGoals = 0 /\ awayGoals = 0
    /\ pHomeWin = Zero /\ pDraw = Zero /\ pAwayWin = Zero
    /\ pOver15 = Zero /\ pOver25 = Zero /\ outPc = "idle"

\* the JSON values a request body can hold, by typeof; v is the number, or
\* 1 / 0 for true / false
JsonUndefined == [t |-> "undefined", v |-> 0]
JsonString == [t |-> "string", v |-> 0]
JsonNumber(n) == [t |-> "number", v |-> n]
JsonBoolean(b) == [t |-> "boolean", v |-> IF b THEN 1 ELSE 0]

NoMessage == [text |-> "", cause |-> "", team |-> 0, what |-> "", need |-> 0, got |-> 0]

NoScore == [home |-> 0, away |-> 0, probability |-> Zero]

NoData ==
    [prediction |-> [homeWin |-> Zero, draw |-> Zero, awayWin |-> Zero],
     expectedGoals |-> [home |-> <<0, 1>>, away |-> <<0, 1>>],
     overUnder |-> [over15 |-> Zero, over25 |-> Zero],
     mostLikelyScore |-> NoScore]

NoResponse ==
    [status |-> 0, ok |-> FALSE, error |-> "", code |-> "", message |-> NoMessage,
     data |-> NoData]

NoFixture == [home |-> 0, away |-> 0]

NotFetched == [state |-> "none", data |-> <<>>]

NoCacheOp == [op |-> "none", key |-> "", at |-> 0, hit |-> FALSE, data |-> <<>>]

CacheIdle == cacheOp = NoCacheOp /\ lastSet = <<>>

PairIdle == reqs = <<>> /\ answered = <<>> /\ writes = <<>>

MatchIdle == mreqs = <<>> /\ stores = <<>>

\* a promise nobody has created yet, and a call that has not settled
NoPromise == [state |-> "none", ok |-> FALSE, status |-> 0, json |-> FALSE, errors |-> 0,
              error |-> ""]
NoOutcome == [kind |-> "none", name |-> "", message |-> "", status |-> 0, errors |-> 0]

ClientIdle ==
    /\ envKey = FALSE /\ elapsed = 0 /\ timeoutId = "none" /\ aborted = FALSE
    /\ fetchPromise = NoPromise /\ bodyPromise = NoPromise
    /\ callPc = "idle" /\ outcome = NoOutcome

SysIdle == CacheIdle /\ PairIdle /\ MatchIdle /\ ClientIdle

RouteIdle ==
    /\ body = [kind |-> "none", fixtureId |-> JsonUndefined, window |-> JsonUndefined,
               useHomeAwaySplit |-> JsonUndefined]
    /\ apiKey = FALSE /\ now = 0 /\ cache = <<>> /\ routePc = "idle"
    /\ fixture = NoFixture
    /\ history = [home |-> NotFetched, away |-> NotFetched]
    /\ events = <<>>
    /\ mostLikelyScore = NoScore
    /\ response = NoResponse

----------------------------------------------------------------------------
(* poisson.ts: computeLambdasFromMatches *)

MinMatches == 3
MinFinished == 3

\* (a faulty variant: the ALL branch leaves the array unfiltered)
keepsMatch_AllUnfiltered(m, team, md) ==
    IF md = "HOME_ONLY" THEN m.home = team
    ELSE IF md = "AWAY_ONLY" THEN m.away = team
    ELSE TRUE

\* lines 114-123: the predicate handed to matches.filter
keepsMatch(m, team, md) ==
    IF md = "HOME_ONLY" THEN m.home = team
    ELSE IF md = "AWAY_ONLY" THEN m.away = team
    ELSE m.home = team \/ m.away = team

filterMatches(ms, team, md) == SelectSeq(ms, LAMBDA m : keepsMatch(m, team, md))

\* (a faulty variant: the first threshold off by one)
tooFewMatches_OffByOne(n) == n < MinMatches - 1

\* line 126
tooFewMatches(n) == n < MinMatches

\* (a faulty variant: the status is not looked at)
isFinishedValid_AnyStatus(m) == m.goalsHome # Null /\ m.goalsAway # Null

\* (a faulty variant: only a match that has not started is left out)
isFinishedValid_UnlessNotStarted(m) ==
    m.status # "NS" /\ m.goalsHome # Null /\ m.goalsAway # Null

\* (a faulty variant: a match decided after extra time or penalties counts)
isFinishedValid_AlsoExtraTime(m) ==
    m.status \in {"FT", "AET", "PEN"} /\ m.goalsHome # Null /\ m.goalsAway # Null

\* line 136
isFinishedValid(m) == m.status = "FT" /\ m.goalsHome # Null /\ m.goalsAway # Null

\* (a faulty variant: the home goal count whatever side the team played on)
goalsScored_AlwaysHome(m, team) == m.goalsHome

\* lines 137-141
goalsScored(m, team) == IF m.home = team THEN m.goalsHome ELSE m.goalsAway

\* lines 131-144: the for-of loop, from position j with the running sums
RECURSIVE accumulate(_, _, _, _, _)
accumulate(fs, team, j, total, count) ==
    IF j > Len(fs) THEN [totalGoals |-> total, matchCount |-> count]
    ELSE IF isFinishedValid(fs[j])
         THEN accumulate(fs, team, j + 1, total + goalsScored(fs[j], team), count + 1)
         ELSE accumulate(fs, team, j + 1, total, count)

\* (a faulty variant: the second check only guards the division)
tooFewFinished_OnlyZero(n) == n = 0

\* line 147
tooFewFinished(n) == n < MinFinished

NoResult == [kind |-> "none", rate |-> <<0, 1>>, what |-> "", need |-> 0, got |-> 0]

\* lines 127 and 148: new Error(`INSUFFICIENT_DATA: Need at least 3 <what>, got <n>`)
InsufficientData(what, need, got) ==
    [kind |-> "INSUFFICIENT_DATA", rate |-> <<0, 1>>, what |-> what, need |-> need, got |-> got]

\* (a faulty variant: the total without the division)
Returned_Total(total, count) ==
    [kind |-> "rate", rate |-> Rat(total, 1), what |-> "", need |-> 0, got |-> 0]

\* line 152
Returned(total, count) ==
    [kind |-> "rate", rate |-> Rat(total, count), what |-> "", need |-> 0, got |-> 0]

\* The whole call, as the sequence of the steps below
computeLambdasFromMatches(ms, team, md) ==
    LET fs == filterMatches(ms, team, md)
        acc == accumulate(fs, team, 1, 0, 0)
    IN  IF tooFewMatches(Len(fs))
        THEN InsufficientData("matches", MinMatches, Len(fs))
        ELSE IF tooFewFinished(acc.matchCount)
             THEN InsufficientData("finished matches", MinFinished, acc.matchCount)
             ELSE Returned(acc.totalGoals, acc.matchCount)

InitLambda ==
    /\ matches \in Histories
    /\ teamId \in Teams
    /\ mode \in LambdaModes
    /\ filteredMatches = <<>>
    /\ totalGoals = 0
    /\ matchCount = 0
    /\ lamPc = "start"
    /\ lamResult = NoResult
    /\ PmfIdle
    /\ OutIdle
    /\ RouteIdle
    /\ SysIdle

\* lines 112-123
FilterByMode ==
    /\ lamPc = "start"
    /\ filteredMatches' = filterMatches(matches, teamId, mode)
    /\ lamPc' = "filtered"
    /\ UNCHANGED <<matches, teamId, mode, totalGoals, matchCount, lamResult>>
    /\ UNCHANGED <<pmfVars, outVars, routeVars, sysVars>>

\* lines 126-128
ThrowTooFewMatches ==
    /\ lamPc = "filtered"
    /\ tooFewMatches(Len(filteredMatches))
    /\ lamResult' = InsufficientData("matches", MinMatches, Len(filteredMatches))
    /\ lamPc' = "thrown"
    /\ UNCHANGED <<matches, teamId, mode, filteredMatches, totalGoals, matchCount>>
    /\ UNCHANGED <<pmfVars, outVars, routeVars, sysVars>>

\* lines 131-144
AccumulateGoals ==
    /\ lamPc = "filtered"
    /\ ~tooFewMatches(Len(filteredMatches))
    /\ LET acc == accumulate(filteredMatches, teamId, 1, 0, 0)
       IN  /\ totalGoals' = acc.totalGoals
           /\ matchCount' = acc.matchCount
    /\ lamPc' = "accumulated"
    /\ UNCHANGED <<matches, teamId, mode, filteredMatches, lamResult>>
    /\ UNCHANGED <<pmfVars, outVars, routeVars, sysVars>>

\* lines 147-149
ThrowTooFewFinished ==
    /\ lamPc = "accumulated"
    /\ tooFewFinished(matchCount)
    /\ lamResult' = InsufficientData("finished matches", MinFinished, matchCount)
    /\ lamPc' = "thrown"
    /\ UNCHANGED <<matches, teamId, mode, filteredMatches, totalGoals, matchCount>>
    /\ UNCHANGED <<pmfVars, outVars, routeVars, sysVars>>

\* line 152
ReturnLambda ==
    /\ lamPc = "accumulated"
    /\ ~tooFewFinished(matchCount)
    /\ lamResult' = Returned(totalGoals, matchCount)
    /\ lamPc' = "returned"
    /\ UNCHANGED <<matches, teamId, mode, filteredMatches, totalGoals, matchCount>>
    /\ UNCHANGED <<pmfVars, outVars, routeVars, sysVars>>

NextLambda ==
    \/ FilterByMode
    \/ ThrowTooFewMatches
    \/ AccumulateGoals
    \/ ThrowTooFewFinished
    \/ ReturnLambda

SpecLambda == InitLambda /\ [][NextLambda]_vars

----------------------------------------------------------------------------
(* Properties of computeLambdasFromMatches, checked under SpecLambda *)

\* The venue rule in the words of the specification
VenueRule(m) ==
    CASE mode = "HOME_ONLY" -> m.home = teamId
      [] mode = "AWAY_ONLY" -> m.away = teamId
      [] mode = "ALL" -> (m.home = teamId \/ m.away = teamId)

PlaysIn(m) == m.home = teamId \/ m.away = teamId

HasResult(m) == m.status = "FT" /\ m.goalsHome # Null /\ m.goalsAway # Null

\* positions of the input that pass the venue rule / that also carry a result
KeptPositions == { j \in 1..Len(matches) : VenueRule(matches[j]) }
CountedPositions == { j \in KeptPositions : HasResult(matches[j]) }

TeamGoalsAt(j) ==
    IF matches[j].home = teamId THEN matches[j].goalsHome ELSE matches[j].goalsAway

RECURSIVE SumTeamGoals(_)
SumTeamGoals(S) ==
    IF S = {} THEN 0
    ELSE LET j == CHOOSE e \in S : TRUE
         IN  TeamGoalsAt(j) + SumTeamGoals(S \ {j})

InsertAt(s, p, m) == SubSeq(s, 1, p) \o <<m>> \o SubSeq(s, p + 1, Len(s))

Finished == lamPc \in {"thrown", "returned"}

\* C1: the venue filter keeps exactly the records the mode selects (home side
\* for HOME_ONLY, away side for AWAY_ONLY, either side for ALL), in their
\* order, and the records of other teams contribute nothing: the call ends as
\* it does on the input without them.
C1_VenueSelection ==
    /\ lamPc # "start" => filteredMatches = SelectSeq(matches, VenueRule)
    /\ Finished =>
         lamResult = computeLambdasFromMatches(SelectSeq(matches, PlaysIn), teamId, mode)

C1_Witness ==
    /\ lamPc = "thrown"
    /\ mode = "AWAY_ONLY"
    /\ Len(filteredMatches) = 1
    /\ \E j \in 1..Len(matches) : matches[j].home = teamId
    /\ \E j \in 1..Len(matches) : ~PlaysIn(matches[j])

\* C2: a returned rate is the target team's goals summed over the kept records
\* that are finished with both goal counts present, divided by their number;
\* a goalless counted record adds 0 to the sum and 1 to the number.
C2_RateIsMean ==
    lamPc = "returned" =>
        /\ totalGoals = SumTeamGoals(CountedPositions)
        /\ matchCount = Cardinality(CountedPositions)
        /\ lamResult.kind = "rate"
        /\ lamResult.rate = Rat(SumTeamGoals(CountedPositions), Cardinality(CountedPositions))

C2_Witness ==
    /\ lamPc = "returned"
    /\ mode = "ALL"
    /\ \E j \in CountedPositions : TeamGoalsAt(j) = 0 /\ matches[j].away = teamId
    /\ \E j \in CountedPositions : TeamGoalsAt(j) > 0 /\ matches[j].home = teamId
    /\ lamResult.rate[2] = 3

\* C3: with fewer than 3 records after the venue filter the call throws
\* INSUFFICIENT_DATA naming the threshold 3 and the number of kept records,
\* whatever those records hold, and it does so before any goal is added.
C3_TooFewMatches ==
    Cardinality(KeptPositions) < 3 =>
        /\ lamPc \in {"start", "filtered", "thrown"}
        /\ lamPc = "filtered" => ENABLED ThrowTooFewMatches
        /\ totalGoals = 0 /\ matchCount = 0
        /\ lamPc = "thrown" =>
             lamResult = [kind |-> "INSUFFICIENT_DATA", rate |-> <<0, 1>>,
                          what |-> "matches", need |-> 3,
                          got |-> Cardinality(KeptPositions)]

C3_Witness ==
    /\ lamPc = "thrown"
    /\ Cardinality(KeptPositions) = 2
    /\ Cardinality(CountedPositions) = 2
    /\ SumTeamGoals(CountedPositions) > 0
    /\ Len(matches) = 3

\* C4: with 3 or more kept records of which fewer than 3 are finished with
\* both goal counts, the call throws INSUFFICIENT_DATA reporting that number;
\* a rate is returned only when the number is at least 3.
C4_TooFewFinished ==
    /\ (Cardinality(KeptPositions) >= 3 /\ Cardinality(CountedPositions) < 3) =>
         /\ lamPc # "returned"
         /\ lamPc = "accumulated" => ENABLED ThrowTooFewFinished
         /\ lamPc = "thrown" =>
              lamResult = [kind |-> "INSUFFICIENT_DATA", rate |-> <<0, 1>>,
                           what |-> "finished matches", need |-> 3,
                           got |-> Cardinality(CountedPositions)]
    /\ lamPc = "returned" => (Cardinality(CountedPositions) >= 3 /\ matchCount >= 3)

C4_Witness ==
    /\ lamPc = "thrown"
    /\ Cardinality(KeptPositions) = 3
    /\ Cardinality(CountedPositions) = 2
    /\ lamResult.what = "finished matches"

\* the records of the target team that are not finished or miss a goal count
SkippedRecords == { m \in FixtureSummary : PlaysIn(m) /\ m.home # m.away /\ ~HasResult(m) }

\* C5: an unfinished record, or one with a null goal count, is skipped and
\* not read as zero: taking all such records out of an input that yields a
\* rate leaves the rate as it is, and so does putting one, with any goal
\* values, anywhere into a three-record input that yields a rate.
C5_SkippedRecordsIgnored ==
    lamPc = "returned" =>
        /\ Len(matches) = 3 =>
             \A m \in SkippedRecords : \A p \in 0..Len(matches) :
                computeLambdasFromMatches(InsertAt(matches, p, m), teamId, mode) = lamResult
        /\ computeLambdasFromMatches(SelectSeq(matches, HasResult), teamId, mode) = lamResult

C5_Witness ==
    /\ lamPc = "returned"
    /\ lamResult.rate = <<2, 3>>
    /\ \E m \in SkippedRecords : m.status = "NS" /\ m.goalsHome = MaxGoal /\ m.goalsAway = MaxGoal

\* C6: a kept record without a status is skipped: the sums are those of the
\* kept records that have one, and the call ends with a rate or with
\* INSUFFICIENT_DATA, the latter only with fewer than 3 counted records.
C6_MissingStatusSkipped ==
    LET stated == SelectSeq(filteredMatches, LAMBDA m : m.status # NoStatus)
        sums == accumulate(stated, teamId, 1, 0, 0)
    IN  /\ lamPc \in {"accumulated", "returned"} =>
              (totalGoals = sums.totalGoals /\ matchCount = sums.matchCount)
        /\ lamPc = "returned" => lamResult.kind = "rate"
        /\ lamPc = "thrown" =>
              /\ lamResult.kind = "INSUFFICIENT_DATA"
              /\ Cardinality(CountedPositions) < 3
              /\ lamResult.what = "finished matches" => lamResult.got = sums.matchCount

C6_Witness ==
    /\ lamPc = "thrown"
    /\ lamResult.what = "finished matches"
    /\ lamResult.got = 2
    /\ \E j \in 1..Len(filteredMatches) :
          /\ filteredMatches[j].status = NoStatus
          /\ filteredMatches[j].goalsHome # Null
          /\ filteredMatches[j].goalsAway # Null

\* kept records with both goal counts present / those of them at full time
ScoredPositions ==
    { j \in KeptPositions : matches[j].goalsHome # Null /\ matches[j].goalsAway # Null }
FullTimePositions == { j \in ScoredPositions : matches[j].status = "FT" }

\* C28: a record counts as finished only when its short status is exactly
\* 'FT': a venue-filtered record with any other status (after extra time,
\* after penalties, live, not started, none) is left out of the goal total
\* and of the count even when both goal counts are present, so the call
\* returns a rate only with 3 or more full-time records and otherwise fails
\* with INSUFFICIENT_DATA reporting the number of full-time records.
C28_OnlyFullTimeCounts ==
    /\ lamPc \in {"accumulated", "returned"} =>
          /\ matchCount = Cardinality(FullTimePositions)
          /\ totalGoals = SumTeamGoals(FullTimePositions)
    /\ lamPc = "returned" =>
          /\ Cardinality(FullTimePositions) >= 3
          /\ lamResult = [NoResult EXCEPT !.kind = "rate",
                                         !.rate = Rat(SumTeamGoals(FullTimePositions),
                                                      Cardinality(FullTimePositions))]
    /\ (lamPc = "thrown" /\ Cardinality(KeptPositions) >= 3) =>
          /\ lamResult.kind = "INSUFFICIENT_DATA"
          /\ lamResult.what = "finished matches"
          /\ lamResult.got = Cardinality(FullTimePositions)
          /\ Cardinality(FullTimePositions) < 3

\* three kept records, all with both goal counts, one of them decided after
\* extra time: the call fails for want of a third finished match
C28_Witness ==
    /\ lamPc = "thrown"
    /\ lamResult.what = "finished matches"
    /\ Cardinality(ScoredPositions) = 3
    /\ Cardinality(FullTimePositions) = 2
    /\ \E j \in ScoredPositions : matches[j].status \in {"AET", "PEN"}

----------------------------------------------------------------------------
(* poisson.ts: poissonPmf *)

\* the rates and counts the function is explored on (a negative rate and
\* negative counts included)
PmfLambdas == { Rat(n, LambdaDen) : n \in -1..MaxLambdaNum }
PmfCounts == (0 - MaxK)..MaxK

\* (a faulty variant: no guard against a negative count)
isNegativeCount_Never(cnt) == FALSE

\* line 14
isNegativeCount(cnt) == cnt < 0

\* (a faulty variant: only lambda = 0 is set apart)
isDegenerate_OnlyZero(lam) == lam = <<0, 1>>

\* line 15: lambda <= 0
isDegenerate(lam) == RLeq(lam, <<0, 1>>)

\* line 15: k === 0 ? 1 : 0
degenerateValue(cnt) == IF cnt = 0 THEN One ELSE Zero

\* (a faulty variant: the loop stops one multiplication short)
loopContinues_OneShort(idx, cnt) == idx < cnt

\* line 19: i <= k
loopContinues(idx, cnt) == idx <= cnt

\* (a faulty variant: the quotient upside down)
multiplyStep_Inverted(prob, lam, idx) == PScale(prob, RDiv(<<idx, 1>>, lam))

\* line 20: probability *= lambda / i
multiplyStep(prob, lam, idx) == PScale(prob, RDiv(lam, <<idx, 1>>))

\* lines 19-21
RECURSIVE pmfLoop(_, _, _, _)
pmfLoop(prob, lam, cnt, idx) ==
    IF loopContinues(idx, cnt)
    THEN pmfLoop(multiplyStep(prob, lam, idx), lam, cnt, idx + 1)
    ELSE prob

\* lines 13-24
poissonPmf(lam, cnt) ==
    IF isNegativeCount(cnt) THEN Zero
    ELSE IF isDegenerate(lam) THEN degenerateValue(cnt)
    ELSE pmfLoop(ExpNeg(lam), lam, cnt, 1)

InitPmf ==
    /\ lambda \in PmfLambdas
    /\ k \in PmfCounts
    /\ i = 0
    /\ probability = Zero
    /\ pmfPc = "start"
    /\ pmfResult = Zero
    /\ LamIdle
    /\ OutIdle
    /\ RouteIdle
    /\ SysIdle

\* line 14
PmfReturnZero ==
    /\ pmfPc = "start"
    /\ isNegativeCount(k)
    /\ pmfResult' = Zero
    /\ pmfPc' = "returned"
    /\ UNCHANGED <<lambda, k, i, probability>>
    /\ UNCHANGED <<lamVars, outVars, routeVars, sysVars>>

\* line 15
PmfReturnDegenerate ==
    /\ pmfPc = "start"
    /\ ~isNegativeCount(k)
    /\ isDegenerate(lambda)
    /\ pmfResult' = degenerateValue(k)
    /\ pmfPc' = "returned"
    /\ UNCHANGED <<lambda, k, i, probability>>
    /\ UNCHANGED <<lamVars, outVars, routeVars, sysVars>>

\* line 18, and the loop's let i = 1
PmfStartLoop ==
    /\ pmfPc = "start"
    /\ ~isNegativeCount(k)
    /\ ~isDegenerate(lambda)
    /\ probability' = ExpNeg(lambda)
    /\ i' = 1
    /\ pmfPc' = "loop"
    /\ UNCHANGED <<lambda, k, pmfResult>>
    /\ UNCHANGED <<lamVars, outVars, routeVars, sysVars>>

\* lines 19-21: one pass through the loop body
PmfLoopBody ==
    /\ pmfPc = "loop"
    /\ loopContinues(i, k)
    /\ probability' = multiplyStep(probability, lambda, i)
    /\ i' = i + 1
    /\ UNCHANGED <<lambda, k, pmfPc, pmfResult>>
    /\ UNCHANGED <<lamVars, outVars, routeVars, sysVars>>

\* line 23
PmfReturn ==
    /\ pmfPc = "loop"
    /\ ~loopContinues(i, k)
    /\ pmfResult' = probability
    /\ pmfPc' = "returned"
    /\ UNCHANGED <<lambda, k, i, probability>>
    /\ UNCHANGED <<lamVars, outVars, routeVars, sysVars>>

NextPmf ==
    \/ PmfReturnZero
    \/ PmfReturnDegenerate
    \/ PmfStartLoop
    \/ PmfLoopBody
    \/ PmfReturn

SpecPmf == InitPmf /\ [][NextPmf]_vars

----------------------------------------------------------------------------
(* Properties of poissonPmf, checked under SpecPmf *)

RECURSIVE Power(_, _)
Power(r, n) == IF n = 0 THEN <<1, 1>> ELSE RMul(r, Power(r, n - 1))

RECURSIVE Factorial(_)
Factorial(n) == IF n <= 1 THEN 1 ELSE n * Factorial(n - 1)

\* C7: the result is 0 for every negative k whatever lambda is; for lambda = 0
\* it is 1 at k = 0 and 0 at every k >= 1; every call runs on to a return.
C7_PmfEdgeCases ==
    /\ pmfPc = "returned" =>
         /\ k < 0 => pmfResult = Zero
         /\ (lambda = <<0, 1>> /\ k = 0) => pmfResult = One
         /\ (lambda = <<0, 1>> /\ k >= 1) => pmfResult = Zero
         /\ pmfResult = poissonPmf(lambda, k)
    /\ pmfPc \in {"start", "loop"} => ENABLED NextPmf

C7_Witness ==
    /\ pmfPc = "returned"
    /\ k < 0
    /\ RLess(<<0, 1>>, lambda)

\* C8: for lambda > 0 the result at k = 0 is e^(-lambda), the result at
\* k >= 1 is the result at k - 1 times lambda / k, which makes it
\* e^(-lambda) * lambda^k / k!, reached by k passes of the loop.
C8_PmfRecurrence ==
    (pmfPc = "returned" /\ RLess(<<0, 1>>, lambda) /\ k >= 0) =>
        /\ k = 0 => pmfResult = [c |-> <<1, 1>>, x |-> lambda]
        /\ k >= 1 => pmfResult = PScale(poissonPmf(lambda, k - 1), RDiv(lambda, <<k, 1>>))
        /\ pmfResult = [c |-> RDiv(Power(lambda, k), <<Factorial(k), 1>>), x |-> lambda]
        /\ i = k + 1

C8_Witness ==
    /\ pmfPc = "returned"
    /\ k = MaxK
    /\ RLess(<<1, 1>>, lambda)
    /\ lambda[2] # 1

----------------------------------------------------------------------------
(* poisson.ts: computeOutcomeProbs *)

OutLambdas == { Rat(n, LambdaDen) : n \in 0..MaxLambdaNum }
GoalLimits == 0..MaxMaxGoals

\* (a faulty variant: the away side needs a two-goal margin)
outcomeBucket_AwayNeedsTwo(h, a) ==
    IF h > a THEN "home" ELSE IF a > h + 1 THEN "away" ELSE "draw"

\* (a faulty variant: the two sides exchanged)
outcomeBucket_Reversed(h, a) ==
    IF h < a THEN "home" ELSE IF h = a THEN "draw" ELSE "away"

\* (a faulty variant: a level score goes to the home side)
outcomeBucket_DrawAsHome(h, a) == IF h >= a THEN "home" ELSE "away"

\* lines 64-70
outcomeBucket(h, a) ==
    IF h > a THEN "home" ELSE IF h = a THEN "draw" ELSE "away"

\* (a faulty variant: the line put at 0.5)
isOver15_AtHalf(t) == 2 * t > 1

\* line 74: totalGoals > 1.5
isOver15(t) == 2 * t > 3

\* line 77: totalGoals > 2.5
isOver25(t) == 2 * t > 5

\* lines 59-79: the body of the inner loop, on the five running sums
scoreCell(acc, lh, la, h, a) ==
    LET homeProb == poissonPmf(lh, h)
        awayProb == poissonPmf(la, a)
        prob == PMul(homeProb, awayProb)
        bucket == outcomeBucket(h, a)
        total == h + a
    IN  [pHomeWin |-> IF bucket = "home" THEN PAdd(acc.pHomeWin, prob) ELSE acc.pHomeWin,
         pDraw |-> IF bucket = "draw" THEN PAdd(acc.pDraw, prob) ELSE acc.pDraw,
         pAwayWin |-> IF bucket = "away" THEN PAdd(acc.pAwayWin, prob) ELSE acc.pAwayWin,
         pOver15 |-> IF isOver15(total) THEN PAdd(acc.pOver15, prob) ELSE acc.pOver15,
         pOver25 |-> IF isOver25(total) THEN PAdd(acc.pOver25, prob) ELSE acc.pOver25]

\* lines 50-54
NoProbs ==
    [pHomeWin |-> Zero, pDraw |-> Zero, pAwayWin |-> Zero, pOver15 |-> Zero, pOver25 |-> Zero]

\* the values a probability and the five sums can take
Probabilities == [c : Int \X Int, x : Int \X Int]
OutcomeProbs ==
    [pHomeWin : Probabilities, pDraw : Probabilities, pAwayWin : Probabilities,
     pOver15 : Probabilities, pOver25 : Probabilities]

\* lines 58-80: the inner loop of row h from column a on
outcomeRow(acc, lh, la, mg, h, a) ==
    LET row[p \in OutcomeProbs \X Nat] ==
            IF p[2] > mg THEN p[1]
            ELSE row[<<scoreCell(p[1], lh, la, h, p[2]), p[2] + 1>>]
    IN  row[<<acc, a>>]

\* lines 57-81: the two nested loops from cell (h, a) on
outcomeLoop(acc, lh, la, mg, h, a) ==
    LET rows[p \in OutcomeProbs \X Nat \X Nat] ==
            IF p[2] > mg THEN p[1]
            ELSE rows[<<outcomeRow(p[1], lh, la, mg, p[2], p[3]), p[2] + 1, 0>>]
    IN  rows[<<acc, h, a>>]

\* lines 45-90
computeOutcomeProbs(lh, la, mg) == outcomeLoop(NoProbs, lh, la, mg, 0, 0)

\* lines 50-58: the sums at 0, both loops at their first cell
InitOutcome ==
    /\ lambdaHome \in OutLambdas
    /\ lambdaAway \in OutLambdas
    /\ maxGoals \in GoalLimits
    /\ homeGoals = 0
    /\ awayGoals = 0
    /\ pHomeWin = Zero /\ pDraw = Zero /\ pAwayWin = Zero
    /\ pOver15 = Zero /\ pOver25 = Zero
    /\ outPc = "loop"
    /\ prediction = NoPrediction
    /\ LamIdle
    /\ PmfIdle
    /\ RouteIdle
    /\ SysIdle

\* lines 58-80: one pass through the inner loop body
OutScoreCell ==
    /\ outPc = "loop"
    /\ homeGoals <= maxGoals
    /\ awayGoals <= maxGoals
    /\ LET acc == scoreCell([pHomeWin |-> pHomeWin, pDraw |-> pDraw, pAwayWin |-> pAwayWin,
                             pOver15 |-> pOver15, pOver25 |-> pOver25],
                            lambdaHome, lambdaAway, homeGoals, awayGoals)
       IN  /\ pHomeWin' = acc.pHomeWin
           /\ pDraw' = acc.pDraw
           /\ pAwayWin' = acc.pAwayWin
           /\ pOver15' = acc.pOver15
           /\ pOver25' = acc.pOver25
    /\ awayGoals' = awayGoals + 1
    /\ UNCHANGED <<lambdaHome, lambdaAway, maxGoals, homeGoals, outPc, prediction>>
    /\ UNCHANGED <<lamVars, pmfVars, routeVars, sysVars>>

\* lines 57-58: the inner loop ends, the outer loop goes to the next row
OutNextRow ==
    /\ outPc = "loop"
    /\ homeGoals <= maxGoals
    /\ awayGoals > maxGoals
    /\ homeGoals' = homeGoals + 1
    /\ awayGoals' = 0
    /\ UNCHANGED <<lambdaHome, lambdaAway, maxGoals, outPc, prediction,
                   pHomeWin, pDraw, pAwayWin, pOver15, pOver25>>
    /\ UNCHANGED <<lamVars, pmfVars, routeVars, sysVars>>

\* lines 83-89
OutReturn ==
    /\ outPc = "loop"
    /\ homeGoals > maxGoals
    /\ outPc' = "returned"
    /\ UNCHANGED <<lambdaHome, lambdaAway, maxGoals, homeGoals, awayGoals, prediction,
                   pHomeWin, pDraw, pAwayWin, pOver15, pOver25>>
    /\ UNCHANGED <<lamVars, pmfVars, routeVars, sysVars>>

\* lines 155-158 (the legacy name of poissonPmf)
poissonProbability(lam, cnt) == poissonPmf(lam, cnt)

\* (a faulty variant: the two rates exchanged)
scoreMatrixOf_Transposed(home, away, mg) ==
    [h \in 0..mg |->
        [a \in 0..mg |-> PMul(poissonProbability(home, a), poissonProbability(away, h))]]

\* lines 176-186: the first pair of loops, scoreMatrix[homeGoals][awayGoals]
scoreMatrixOf(home, away, mg) ==
    [h \in 0..mg |->
        [a \in 0..mg |-> PMul(poissonProbability(home, h), poissonProbability(away, a))]]

NoSums == [homeWin |-> Zero, draw |-> Zero, awayWin |-> Zero]

\* lines 195-203: one pass through the body of the second inner loop
sumCell(acc, prob, h, a) ==
    IF h > a THEN [acc EXCEPT !.homeWin = PAdd(acc.homeWin, prob)]
    ELSE IF h = a THEN [acc EXCEPT !.draw = PAdd(acc.draw, prob)]
    ELSE [acc EXCEPT !.awayWin = PAdd(acc.awayWin, prob)]

\* lines 188-205: the second pair of loops, row by row; cell n (from 1) of
\* that order is scoreMatrix[(n - 1) \div (mg + 1)][(n - 1) % (mg + 1)]
outcomeSums(scoreMatrix, mg) ==
    LET upTo[n \in 0..((mg + 1) * (mg + 1))] ==
            IF n = 0 THEN NoSums
            ELSE LET h == (n - 1) \div (mg + 1)
                     a == (n - 1) % (mg + 1)
                 IN  sumCell(upTo[n - 1], scoreMatrix[h][a], h, a)
    IN  upTo[(mg + 1) * (mg + 1)]

\* lines 171-217
calculatePoissonPrediction(homeExpectedGoals, awayExpectedGoals, mg) ==
    LET scoreMatrix == scoreMatrixOf(homeExpectedGoals, awayExpectedGoals, mg)
        sums == outcomeSums(scoreMatrix, mg)
    IN  [homeWin |-> sums.homeWin, draw |-> sums.draw, awayWin |-> sums.awayWin,
         expectedGoals |-> [home |-> homeExpectedGoals, away |-> awayExpectedGoals],
         scoreMatrix |-> scoreMatrix]

\* lines 171-217: the legacy function called with the rates and the bound
\* computeOutcomeProbs is running with
LegacyPrediction ==
    /\ outPc \in {"loop", "returned"}
    /\ prediction = NoPrediction
    /\ prediction' = calculatePoissonPrediction(lambdaHome, lambdaAway, maxGoals)
    /\ UNCHANGED <<lambdaHome, lambdaAway, maxGoals, homeGoals, awayGoals, outPc,
                   pHomeWin, pDraw, pAwayWin, pOver15, pOver25>>
    /\ UNCHANGED <<lamVars, pmfVars, routeVars, sysVars>>

NextOutcome ==
    \/ OutScoreCell
    \/ OutNextRow
    \/ OutReturn
    \/ LegacyPrediction

SpecOutcome == InitOutcome /\ [][NextOutcome]_vars

----------------------------------------------------------------------------
(* Properties of computeOutcomeProbs, checked under SpecOutcome *)

AllCells == (0..maxGoals) \X (0..maxGoals)

\* the cells the loops have been through
ScoredCells ==
    { c \in AllCells : c[1] < homeGoals \/ (c[1] = homeGoals /\ c[2] < awayGoals) }

CellProb(c) == PMul(poissonPmf(lambdaHome, c[1]), poissonPmf(lambdaAway, c[2]))

RECURSIVE SumCells(_)
SumCells(S) ==
    IF S = {} THEN Zero
    ELSE LET c == CHOOSE e \in S : TRUE
         IN  PAdd(CellProb(c), SumCells(S \ {c}))

OutcomeTotal == PAdd(PAdd(pHomeWin, pDraw), pAwayWin)

\* 1 + x + ... + x^n / n!, which e^x exceeds for x > 0 and equals for x = 0
RECURSIVE ExpPartialSum(_, _)
ExpPartialSum(x, n) ==
    IF n = 0 THEN <<1, 1>>
    ELSE RAdd(ExpPartialSum(x, n - 1), RDiv(Power(x, n), <<Factorial(n), 1>>))

\* c * e^(-x) < 1, shown by c <= 1 + x + ... + x^n / n! < e^x for some n (x > 0)
BelowOne(v) ==
    /\ RLess(<<0, 1>>, v.x)
    /\ \E n \in 0..(2 * MaxMaxGoals + 1) : RLeq(v.c, ExpPartialSum(v.x, n))

\* C9: every scoreline the loops have been through is in exactly one of the
\* three outcome sums, the one its score difference selects, so on return the
\* three add up to the mass of the truncated matrix; nothing is normalised,
\* and with a positive rate that mass is strictly below 1.
C9_OutcomeBuckets ==
    outPc \in {"loop", "returned"} =>
        /\ pHomeWin = SumCells({ c \in ScoredCells : c[1] > c[2] })
        /\ pDraw = SumCells({ c \in ScoredCells : c[1] = c[2] })
        /\ pAwayWin = SumCells({ c \in ScoredCells : c[1] < c[2] })
        /\ outPc = "returned" =>
             /\ OutcomeTotal = SumCells(AllCells)
             /\ (lambdaHome # <<0, 1>> \/ lambdaAway # <<0, 1>>) => BelowOne(OutcomeTotal)

C9_Witness ==
    /\ outPc = "returned"
    /\ maxGoals = MaxMaxGoals
    /\ RLess(<<0, 1>>, lambdaAway)
    /\ RLess(lambdaAway, lambdaHome)
    /\ PLess(pAwayWin, pDraw)
    /\ PLess(pDraw, pHomeWin)

\* C10: pOver15 is the sum of the cells with h + a >= 2 and pOver25 of those
\* with h + a >= 3, whatever outcome sum a cell is in, hence
\* pOver25 <= pOver15 <= pHomeWin + pDraw + pAwayWin.
C10_OverUnder ==
    outPc \in {"loop", "returned"} =>
        /\ pOver15 = SumCells({ c \in ScoredCells : c[1] + c[2] >= 2 })
        /\ pOver25 = SumCells({ c \in ScoredCells : c[1] + c[2] >= 3 })
        /\ PLeq(pOver25, pOver15)
        /\ PLeq(pOver15, OutcomeTotal)

C10_Witness ==
    /\ outPc = "returned"
    /\ maxGoals = MaxMaxGoals
    /\ PLess(Zero, pOver25)
    /\ PLess(pOver25, pOver15)
    /\ PLess(pOver15, OutcomeTotal)

----------------------------------------------------------------------------
(* Order between numbers c * e^(-x) with different exponents *)

RSub(p, q) == RAdd(p, <<0 - q[1], q[2]>>)

ExpTerms == 0..(2 * MaxMaxGoals + 2)

\* an upper bound of e^d for 0 <= d < n + 2: the partial sum plus the
\* remainder, which is at most d^(n+1) / (n+1)! / (1 - d / (n+2))
ExpUpperSum(d, n) ==
    RAdd(ExpPartialSum(d, n),
         RDiv(RDiv(Power(d, n + 1), <<Factorial(n + 1), 1>>),
              RSub(<<1, 1>>, RDiv(d, <<n + 2, 1>>))))

\* c1 * e^d < c2 for c1 >= 0, d >= 0, shown by an upper bound of e^d
ScaledBelow(c1, d, c2) ==
    IF c1[1] = 0 THEN RLess(c1, c2)
    ELSE \E n \in ExpTerms :
            /\ RLess(d, <<n + 2, 1>>)
            /\ RLeq(ExpUpperSum(d, n), RDiv(c2, c1))
            /\ ExpUpperSum(d, n) # RDiv(c2, c1) \/ d # <<0, 1>>

\* c1 < c2 * e^d for c2 > 0, d >= 0, shown by a lower bound of e^d
BelowScaled(c1, d, c2) ==
    /\ c2[1] > 0
    /\ \E n \in ExpTerms :
          \/ RLess(RDiv(c1, c2), ExpPartialSum(d, n))
          \/ RDiv(c1, c2) = ExpPartialSum(d, n) /\ d # <<0, 1>> 

\* v < w for non-negative v = c1 * e^(-x1), w = c2 * e^(-x2):
\* c1 * e^(x2 - x1) < c2 when x2 >= x1, c1 < c2 * e^(x1 - x2) otherwise
SurelyLess(v, w) ==
    IF RLeq(v.x, w.x)
    THEN ScaledBelow(v.c, RSub(w.x, v.x), w.c)
    ELSE BelowScaled(v.c, RSub(v.x, w.x), w.c)

SurelyLeq(v, w) == v = w \/ SurelyLess(v, w)

----------------------------------------------------------------------------
(* Further properties of computeOutcomeProbs, checked under SpecOutcome *)

\* C12: exchanging the two rates exchanges pHomeWin with pAwayWin and leaves
\* pDraw, pOver15 and pOver25 as they are; with equal rates pHomeWin and
\* pAwayWin are therefore equal.
C12_Symmetry ==
    outPc = "returned" =>
        LET swapped == computeOutcomeProbs(lambdaAway, lambdaHome, maxGoals)
        IN  /\ swapped.pHomeWin = pAwayWin
            /\ swapped.pAwayWin = pHomeWin
            /\ swapped.pDraw = pDraw
            /\ swapped.pOver15 = pOver15
            /\ swapped.pOver25 = pOver25
            /\ lambdaHome = lambdaAway => pHomeWin = pAwayWin

C12_Witness ==
    /\ outPc = "returned"
    /\ maxGoals = MaxMaxGoals
    /\ lambdaHome = lambdaAway
    /\ RLess(<<0, 1>>, lambdaHome)
    /\ pHomeWin = pAwayWin
    /\ PLess(Zero, pHomeWin)

\* C13: with maxGoals >= 1 the side with the higher rate has the higher win
\* probability: lambdaHome > lambdaAway >= 0 gives pHomeWin > pAwayWin, and
\* lambdaAway > lambdaHome >= 0 gives pAwayWin > pHomeWin.
C13_HigherRateWins ==
    (outPc = "returned" /\ maxGoals >= 1) =>
        /\ RLess(lambdaAway, lambdaHome) => PLess(pAwayWin, pHomeWin)
        /\ RLess(lambdaHome, lambdaAway) => PLess(pHomeWin, pAwayWin)

C13_Witness ==
    /\ outPc = "returned"
    /\ maxGoals = 1
    /\ lambdaAway = <<0, 1>>
    /\ RLess(lambdaAway, lambdaHome)
    /\ pAwayWin = Zero
    /\ PLess(pAwayWin, pHomeWin)

\* the same call with another home rate
WithHomeRate(lh) == computeOutcomeProbs(lh, lambdaAway, maxGoals)

HigherHomeRates == { lh \in OutLambdas : RLess(lambdaHome, lh) }

\* lh^maxGoals <= maxGoals!: up to there every scoreline 0..maxGoals-1 of the
\* home side is at least as likely as the last one, maxGoals
BeforeTruncationBites(lh) == RLeq(Power(lh, maxGoals), <<Factorial(maxGoals), 1>>)

\* C14 (as stated): with lambdaAway and maxGoals fixed, a higher lambdaHome
\* gives a strictly higher pHomeWin and a strictly lower pAwayWin.
C14_Monotone_AsStated ==
    outPc = "returned" =>
        \A lh \in HigherHomeRates :
            /\ ~SurelyLeq(WithHomeRate(lh).pHomeWin, pHomeWin)
            /\ ~SurelyLeq(pAwayWin, WithHomeRate(lh).pAwayWin)

\* C14 (amended): with lambdaAway and maxGoals >= 1 fixed, a higher lambdaHome
\* gives a strictly lower pAwayWin when lambdaAway > 0 (pAwayWin is 0 for
\* every lambdaHome when lambdaAway = 0), and a strictly higher pHomeWin as
\* long as the higher rate satisfies lambdaHome^maxGoals <= maxGoals!; with
\* maxGoals = 0 both are 0 for every rate.
C14_Monotone ==
    outPc = "returned" =>
        \A lh \in HigherHomeRates :
            /\ (maxGoals >= 1 /\ BeforeTruncationBites(lh)) =>
                   SurelyLess(pHomeWin, WithHomeRate(lh).pHomeWin)
            /\ (maxGoals >= 1 /\ RLess(<<0, 1>>, lambdaAway)) =>
                   SurelyLess(WithHomeRate(lh).pAwayWin, pAwayWin)
            /\ (maxGoals = 0 \/ lambdaAway = <<0, 1>>) =>
                   (pAwayWin = Zero /\ WithHomeRate(lh).pAwayWin = Zero)
            /\ maxGoals = 0 => (pHomeWin = Zero /\ WithHomeRate(lh).pHomeWin = Zero)

\* a rise of the home rate past the point lambdaHome^maxGoals = maxGoals!
\* after which pHomeWin is lower
C14_Witness ==
    /\ outPc = "returned"
    /\ maxGoals >= 1
    /\ RLess(<<0, 1>>, lambdaAway)
    /\ \E lh \in HigherHomeRates : BeforeTruncationBites(lh)
    /\ \E lh \in HigherHomeRates :
          /\ ~BeforeTruncationBites(lh)
          /\ SurelyLess(WithHomeRate(lh).pHomeWin, pHomeWin)

----------------------------------------------------------------------------
(* Sign and size of the probabilities, checked under SpecPmf *)

NonNegative(v) == v.c[1] >= 0

RECURSIVE PmfPartialSum(_, _)
PmfPartialSum(lam, n) ==
    IF n < 0 THEN Zero ELSE PAdd(PmfPartialSum(lam, n - 1), poissonPmf(lam, n))

\* c * e^(-x) <= 1 for x >= 0, shown by c <= 1 + x + ... + x^n / n! <= e^x
AtMostOne(v) ==
    /\ RLeq(<<0, 1>>, v.x)
    /\ \E n \in ExpTerms : RLeq(v.c, ExpPartialSum(v.x, n))

\* C15: poissonPmf(lambda, k) >= 0 for every lambda and every integer k, so
\* every cell and each of the five sums of computeOutcomeProbs is >= 0, and
\* the sum of poissonPmf(lambda, j) over j = 0..n is at most 1.
C15_NonNegative ==
    /\ pmfPc = "returned" => NonNegative(pmfResult)
    /\ pmfPc = "loop" => NonNegative(probability)
    /\ pmfPc # "idle" =>
         /\ \A n \in 0..MaxK :
               /\ NonNegative(poissonPmf(lambda, n))
               /\ AtMostOne(PmfPartialSum(lambda, n))
         /\ \A la \in PmfLambdas, mg \in GoalLimits :
               LET r == computeOutcomeProbs(lambda, la, mg)
               IN  /\ NonNegative(r.pHomeWin) /\ NonNegative(r.pDraw)
                   /\ NonNegative(r.pAwayWin)
                   /\ NonNegative(r.pOver15) /\ NonNegative(r.pOver25)

C15_Witness ==
    /\ pmfPc = "returned"
    /\ k = MaxK
    /\ RLess(<<0, 1>>, lambda)
    /\ PLess(Zero, pmfResult)
    /\ PmfPartialSum(lambda, k) # One

----------------------------------------------------------------------------
(* Range of the rate, checked under SpecLambda *)

CountedGoals == { TeamGoalsAt(j) : j \in CountedPositions }

\* C16: a returned rate is >= 0 and lies between the smallest and the largest
\* goal count of the target team over the counted records.
C16_RateInRange ==
    lamPc = "returned" =>
        /\ lamResult.kind = "rate"
        /\ RLeq(<<0, 1>>, lamResult.rate)
        /\ \E lo \in CountedGoals : RLeq(<<lo, 1>>, lamResult.rate)
        /\ \E hi \in CountedGoals : RLeq(lamResult.rate, <<hi, 1>>)
        /\ \A g \in CountedGoals : g >= 0

C16_Witness ==
    /\ lamPc = "returned"
    /\ Cardinality(CountedGoals) >= 2
    /\ \E lo \in CountedGoals : RLess(<<lo, 1>>, lamResult.rate)
    /\ \E hi \in CountedGoals : RLess(lamResult.rate, <<hi, 1>>)

----------------------------------------------------------------------------
(* memoryCache.ts: the cache as a map from key to [data, expiry] *)

\* (a faulty variant: an entry already present is kept)
cacheSet_KeepFirst(c, key, data, ttlMs, t) ==
    [q \in DOMAIN c \cup {key} |->
        IF q \in DOMAIN c THEN c[q] ELSE [data |-> data, expiry |-> t + ttlMs]]

\* lines 15-18: set(key, data, ttlMs) at time t
cacheSet(c, key, data, ttlMs, t) ==
    [q \in DOMAIN c \cup {key} |->
        IF q = key THEN [data |-> data, expiry |-> t + ttlMs] ELSE c[q]]

\* lines 50-52: delete(key)
cacheDelete(c, key) == [q \in DOMAIN c \ {key} |-> c[q]]

\* (a faulty variant: an entry is given up at its expiry, not after it)
cacheGet_AtExpiry(c, key, t) ==
    IF key \notin DOMAIN c
    THEN [hit |-> FALSE, data |-> <<>>, cache |-> c]
    ELSE IF t >= c[key].expiry
         THEN [hit |-> FALSE, data |-> <<>>, cache |-> cacheDelete(c, key)]
         ELSE [hit |-> TRUE, data |-> c[key].data, cache |-> c]

\* lines 20-33: get(key) at time t; null is hit = FALSE
cacheGet(c, key, t) ==
    IF key \notin DOMAIN c
    THEN [hit |-> FALSE, data |-> <<>>, cache |-> c]
    ELSE IF t > c[key].expiry
         THEN [hit |-> FALSE, data |-> <<>>, cache |-> cacheDelete(c, key)]
         ELSE [hit |-> TRUE, data |-> c[key].data, cache |-> c]

\* lines 35-48: has(key) at time t
cacheHas(c, key, t) ==
    IF key \notin DOMAIN c
    THEN [hit |-> FALSE, cache |-> c]
    ELSE IF t > c[key].expiry
         THEN [hit |-> FALSE, cache |-> cacheDelete(c, key)]
         ELSE [hit |-> TRUE, cache |-> c]

\* lines 54-56: clear()
cacheClear(c) == <<>>

\* (a faulty variant: every entry swept)
cacheCleanup_Everything(c, t) == <<>>

\* lines 59-66: cleanup() at time t
cacheCleanup(c, t) ==
    LET kept == { q \in DOMAIN c : ~(t > c[q].expiry) }
    IN  [q \in kept |-> c[q]]

----------------------------------------------------------------------------
(* route.ts: POST /api/poisson *)

HISTORY_CACHE_TTL_MS == 600000
MinWindow == 3
MaxWindow == 50
OutcomeMaxGoals == 6
SearchMaxGoals == 6

\* the goal counts in the histories the provider answers with
MaxRouteGoal == 1

\* the fixture the provider knows: team 1 at home to team 2
KnownFixture == [home |-> 1, away |-> 2]

Sides == {"home", "away"}

Opponent(team) == IF team = KnownFixture.home THEN KnownFixture.away ELSE KnownFixture.home

HomeMatch(team, g, st) ==
    [home |-> team, away |-> Opponent(team), status |-> st, goalsHome |-> g, goalsAway |-> 0]

AwayMatch(team, g, st) ==
    [home |-> Opponent(team), away |-> team, status |-> st, goalsHome |-> 0, goalsAway |-> g]

\* a provider answer for a team: nh home matches then na away matches, the
\* team scoring g in each; the first record not yet played when unplayed
TeamHistory(team, nh, na, g, unplayed) ==
    [j \in 1..(nh + na) |->
        LET st == IF unplayed /\ j = 1 THEN "NS" ELSE "FT"
        IN  IF j <= nh THEN HomeMatch(team, g, st) ELSE AwayMatch(team, g, st)]

HistoryShapes == {<<0, 0>>, <<3, 0>>, <<0, 3>>}

ProviderHistories(team) ==
    { TeamHistory(team, sh[1], sh[2], g, FALSE) : sh \in HistoryShapes, g \in 0..MaxRouteGoal }
        \cup { TeamHistory(team, 3, 0, 1, TRUE), TeamHistory(team, 0, 3, 1, TRUE) }

\* lines 57-59, 64-66 of client.ts and its timeout: what a failed call throws
ProviderErrors ==
    {"API-Sports request failed: 500 Internal Server Error",
     "API-Sports request timed out after 10s"}

FixtureIds == {JsonUndefined, JsonString, JsonNumber(0), JsonNumber(-1), JsonNumber(1)}
Windows ==
    {JsonUndefined, JsonString, JsonNumber(0), JsonNumber(MinWindow - 1), JsonNumber(MinWindow),
     JsonNumber(MaxWindow), JsonNumber(MaxWindow + 1)}
Splits == {JsonUndefined, JsonString, JsonBoolean(TRUE), JsonBoolean(FALSE)}

\* line 27: what request.json() gives: a throw, null, or a value with fields
RequestBodies ==
    [kind : {"object"}, fixtureId : FixtureIds, window : Windows, useHomeAwaySplit : Splits]
        \cup [kind : {"invalid", "null"}, fixtureId : {JsonUndefined}, window : {JsonUndefined},
              useHomeAwaySplit : {JsonUndefined}]

\* !x for the values above (strings are non-empty)
falsy(x) ==
    \/ x.t = "undefined"
    \/ x.t \in {"number", "boolean"} /\ x.v = 0

\* line 40
badFixtureId(x) == falsy(x) \/ x.t # "number" \/ x.v <= 0

\* line 49
badWindow(x) == falsy(x) \/ x.t # "number" \/ x.v < MinWindow \/ x.v > MaxWindow

\* line 58
badSplit(x) == x.t # "boolean"

validBody(b) ==
    /\ b.kind = "object"
    /\ ~badFixtureId(b.fixtureId)
    /\ ~badWindow(b.window)
    /\ ~badSplit(b.useHomeAwaySplit)

\* (a faulty variant: the team left out of the key)
cacheKey_TeamBlind(team, window) == <<0, window>>

\* line 109: `history:${teamId}:${leagueId}:${season}:${window}`, league and
\* season being those of the one known fixture
cacheKey(team, window) == <<team, window>>

Message(text) == [NoMessage EXCEPT !.text = text]

\* NextResponse.json({ ok: false, error }, { status })
ErrorResponse(status, error, code, message) ==
    [status |-> status, ok |-> FALSE, error |-> error, code |-> code, message |-> message,
     data |-> NoData]

\* entries an earlier request for the same fixture has left, written at time 0
EarlierEntry(team) ==
    [data |-> IF team = KnownFixture.home THEN TeamHistory(team, 3, 0, 1, FALSE)
              ELSE TeamHistory(team, 0, 3, 0, FALSE),
     expiry |-> HISTORY_CACHE_TTL_MS]

EarlierKeys == { cacheKey(KnownFixture.home, MinWindow), cacheKey(KnownFixture.away, MinWindow) }

EarlierCaches == { [key \in K |-> EarlierEntry(key[1])] : K \in SUBSET EarlierKeys }

\* the time of the request and the cache it finds: any of the entries at the
\* last moment of their life, or both entries just after it
Environments ==
    { <<HISTORY_CACHE_TTL_MS, c>> : c \in EarlierCaches }
        \cup { <<HISTORY_CACHE_TTL_MS + 1, [key \in EarlierKeys |-> EarlierEntry(key[1])]>> }

InitRoute ==
    /\ body \in RequestBodies
    /\ apiKey \in BOOLEAN
    /\ \E env \in Environments : now = env[1] /\ cache = env[2]
    /\ routePc = "start"
    /\ fixture = NoFixture
    /\ history = [home |-> NotFetched, away |-> NotFetched]
    /\ events = <<>>
    /\ mostLikelyScore = NoScore
    /\ response = NoResponse
    /\ LamIdle
    /\ PmfIdle
    /\ OutIdle
    /\ SysIdle

Respond(r) ==
    /\ response' = r
    /\ routePc' = "responded"

\* lines 26-35
RejectInvalidJson ==
    /\ routePc = "start"
    /\ body.kind = "invalid"
    /\ Respond(ErrorResponse(400, "BAD_INPUT", "VALIDATION_ERROR",
                             Message("Invalid JSON in request body")))
    /\ UNCHANGED <<body, apiKey, now, cache, fixture, history, events, mostLikelyScore>>
    /\ UNCHANGED <<lamVars, pmfVars, outVars, sysVars>>

\* line 37 on a null body: the destructuring throws a TypeError, which the
\* outer catch of lines 218-227 answers
ThrowOnNullBody ==
    /\ routePc = "start"
    /\ body.kind = "null"
    /\ Respond(ErrorResponse(500, "INTERNAL_ERROR", "API_ERROR",
                             Message("Cannot destructure property 'fixtureId' of 'body' as it is null.")))
    /\ UNCHANGED <<body, apiKey, now, cache, fixture, history, events, mostLikelyScore>>
    /\ UNCHANGED <<lamVars, pmfVars, outVars, sysVars>>

\* lines 40-47
RejectFixtureId ==
    /\ routePc = "start"
    /\ body.kind = "object"
    /\ badFixtureId(body.fixtureId)
    /\ Respond(ErrorResponse(400, "BAD_INPUT", "VALIDATION_ERROR",
                             Message("fixtureId must be a positive number")))
    /\ UNCHANGED <<body, apiKey, now, cache, fixture, history, events, mostLikelyScore>>
    /\ UNCHANGED <<lamVars, pmfVars, outVars, sysVars>>

\* lines 49-56
RejectWindow ==
    /\ routePc = "start"
    /\ body.kind = "object"
    /\ ~badFixtureId(body.fixtureId)
    /\ badWindow(body.window)
    /\ Respond(ErrorResponse(400, "BAD_INPUT", "VALIDATION_ERROR",
                             Message("window must be a number between 3 and 50")))
    /\ UNCHANGED <<body, apiKey, now, cache, fixture, history, events, mostLikelyScore>>
    /\ UNCHANGED <<lamVars, pmfVars, outVars, sysVars>>

\* lines 58-65
RejectSplit ==
    /\ routePc = "start"
    /\ body.kind = "object"
    /\ ~badFixtureId(body.fixtureId)
    /\ ~badWindow(body.window)
    /\ badSplit(body.useHomeAwaySplit)
    /\ Respond(ErrorResponse(400, "BAD_INPUT", "VALIDATION_ERROR",
                             Message("useHomeAwaySplit must be a boolean")))
    /\ UNCHANGED <<body, apiKey, now, cache, fixture, history, events, mostLikelyScore>>
    /\ UNCHANGED <<lamVars, pmfVars, outVars, sysVars>>

\* lines 68-75
RejectMissingKey ==
    /\ routePc = "start"
    /\ validBody(body)
    /\ ~apiKey
    /\ Respond(ErrorResponse(500, "MISSING_API_KEY", "CONFIGURATION_ERROR",
                             Message("API-Sports API key is not configured")))
    /\ UNCHANGED <<body, apiKey, now, cache, fixture, history, events, mostLikelyScore>>
    /\ UNCHANGED <<lamVars, pmfVars, outVars, sysVars>>

\* what the handler did, in order: provider calls and their failures, cache
\* reads and writes, estimator and outcome calls
Event(op, team, arg) == [op |-> op, team |-> team, arg |-> arg]

\* lines 80-82: the call goes out, the handler awaits
RequestFixture ==
    /\ routePc = "start"
    /\ validBody(body)
    /\ apiKey
    /\ events' = Append(events, Event("provider /fixtures id", 0, ""))
    /\ routePc' = "fixture"
    /\ UNCHANGED <<body, apiKey, now, cache, fixture, history, mostLikelyScore, response>>
    /\ UNCHANGED <<lamVars, pmfVars, outVars, sysVars>>

\* (a faulty variant: the provider's message left out)
ApiSportsErrorResponse_Opaque(text, team, err) ==
    ErrorResponse(500, "APISPORTS_ERROR", "API_ERROR", Message(text))

\* lines 84-89 and 133, 146-151: the text, then the provider's error.message
ApiSportsErrorResponse(text, team, err) ==
    ErrorResponse(500, "APISPORTS_ERROR", "API_ERROR",
                  [Message(text) EXCEPT !.team = team, !.cause = err])

\* lines 83-90
FixtureFails ==
    /\ routePc = "fixture"
    /\ \E err \in ProviderErrors :
          /\ events' = Append(events, Event("provider failed", 0, err))
          /\ Respond(ApiSportsErrorResponse("Failed to fetch match details: ", 0, err))
    /\ UNCHANGED <<body, apiKey, now, cache, fixture, history, mostLikelyScore>>
    /\ UNCHANGED <<lamVars, pmfVars, outVars, sysVars>>

\* lines 92-99
FixtureNotFound ==
    /\ routePc = "fixture"
    /\ Respond(ErrorResponse(404, "BAD_INPUT", "NOT_FOUND", Message("No fixture found with ID ")))
    /\ UNCHANGED <<body, apiKey, now, cache, fixture, history, events, mostLikelyScore>>
    /\ UNCHANGED <<lamVars, pmfVars, outVars, sysVars>>

teamOf(fx, side) == IF side = "home" THEN fx.home ELSE fx.away

\* lines 109-124: fetchTeamHistory up to its return or its await
startFetch(c, team, window, t) ==
    LET got == cacheGet(c, cacheKey(team, window), t)
    IN  [cache |-> got.cache,
         fetch |-> IF got.hit THEN [state |-> "cached", data |-> got.data]
                   ELSE [state |-> "pending", data |-> <<>>],
         events |-> IF got.hit THEN <<Event("cache.get", team, "")>>
                    ELSE <<Event("cache.get", team, ""),
                           Event("provider /fixtures team", team, "")>>]

\* lines 101-105 and 141-144: the fixture is mapped and both history fetches
\* are started, the home team's first
FixtureArrives ==
    /\ routePc = "fixture"
    /\ fixture' = KnownFixture
    /\ LET h == startFetch(cache, KnownFixture.home, body.window.v, now)
           a == startFetch(h.cache, KnownFixture.away, body.window.v, now)
       IN  /\ cache' = a.cache
           /\ history' = [home |-> h.fetch, away |-> a.fetch]
           /\ events' = events \o h.events \o a.events
    /\ routePc' = "histories"
    /\ UNCHANGED <<body, apiKey, now, mostLikelyScore, response>>
    /\ UNCHANGED <<lamVars, pmfVars, outVars, sysVars>>

\* lines 126-131: the provider's answer is mapped, cached and returned
HistoryArrives ==
    /\ routePc \in {"histories", "responded"}
    /\ \E side \in Sides :
          /\ history[side].state = "pending"
          /\ \E fixtures \in ProviderHistories(teamOf(fixture, side)) :
                /\ Len(fixtures) <= body.window.v
                /\ cache' = cacheSet(cache, cacheKey(teamOf(fixture, side), body.window.v),
                                     fixtures, HISTORY_CACHE_TTL_MS, now)
                /\ history' = [history EXCEPT ![side] = [state |-> "fetched", data |-> fixtures]]
                /\ events' = Append(events, Event("cache.set", teamOf(fixture, side), ""))
    /\ UNCHANGED <<body, apiKey, now, routePc, fixture, mostLikelyScore, response>>
    /\ UNCHANGED <<lamVars, pmfVars, outVars, sysVars>>

\* lines 132-134 and 145-152: the fetch throws; Promise.all rejects with the
\* first rejection, which the handler answers unless it has answered already
HistoryFails ==
    /\ routePc \in {"histories", "responded"}
    /\ \E side \in Sides, err \in ProviderErrors :
          /\ history[side].state = "pending"
          /\ history' = [history EXCEPT ![side] = [state |-> "failed", data |-> <<>>]]
          /\ events' = Append(events, Event("provider failed", teamOf(fixture, side), err))
          /\ IF routePc = "histories"
             THEN Respond(ApiSportsErrorResponse("Failed to fetch history for team ",
                                                 teamOf(fixture, side), err))
             ELSE UNCHANGED <<routePc, response>>
    /\ UNCHANGED <<body, apiKey, now, cache, fixture, mostLikelyScore>>
    /\ UNCHANGED <<lamVars, pmfVars, outVars, sysVars>>

\* (a faulty variant: the split ignored)
modeFor_AlwaysAll(side, split) == "ALL"

\* lines 159-167: the mode each side's rate is estimated with
modeFor(side, split) ==
    IF split THEN (IF side = "home" THEN "HOME_ONLY" ELSE "AWAY_ONLY") ELSE "ALL"

\* the estimate of one side, as lines 161-166 call it
estimate(side) ==
    computeLambdasFromMatches(history[side].data, teamOf(fixture, side),
                              modeFor(side, body.useHomeAwaySplit.v = 1))

\* (a faulty variant: a fixed text in place of the estimator's message)
InsufficientDataResponse_Generic(err) ==
    ErrorResponse(400, "INSUFFICIENT_DATA", "INSUFFICIENT_DATA",
                  Message("Not enough historical data to calculate prediction"))

\* lines 168-175: error.message is the estimator's message
InsufficientDataResponse(err) ==
    ErrorResponse(400, "INSUFFICIENT_DATA", "INSUFFICIENT_DATA",
                  [Message("INSUFFICIENT_DATA: Need at least ")
                      EXCEPT !.what = err.what, !.need = err.need, !.got = err.got])

\* lines 231-239
RECURSIVE factorialLoop(_, _, _)
factorialLoop(result, j, n) ==
    IF j <= n THEN factorialLoop(result * j, j + 1, n) ELSE result

\* (a faulty variant: the loop stops one short)
factorial_OneShort(n) == IF n <= 1 THEN 1 ELSE factorialLoop(1, 2, n - 1)

factorial(n) == IF n <= 1 THEN 1 ELSE factorialLoop(1, 2, n)

\* lines 185-186: (Math.exp(-lambda) * Math.pow(lambda, n)) / factorial(n)
directProb(lam, n) == PScale(ExpNeg(lam), RDiv(Power(lam, n), <<factorial(n), 1>>))

\* (a faulty variant: a tie replaces the cell found so far)
isBetter_OrEqual(prob, best) == PLeq(best.probability, prob)

\* line 189
isBetter(prob, best) == PLess(best.probability, prob)

MostLikelyScores == [home : Nat, away : Nat, probability : Probabilities]

\* lines 184-192: the inner loop of row h from column a on
searchRow(best, lh, la, h, a) ==
    LET row[p \in MostLikelyScores \X Nat] ==
            IF p[2] > SearchMaxGoals THEN p[1]
            ELSE LET prob == PMul(directProb(lh, h), directProb(la, p[2]))
                 IN  row[<<IF isBetter(prob, p[1])
                           THEN [home |-> h, away |-> p[2], probability |-> prob]
                           ELSE p[1],
                           p[2] + 1>>]
    IN  row[<<best, a>>]

\* lines 183-193
searchLoop(best, lh, la, h, a) ==
    LET rows[p \in MostLikelyScores \X Nat \X Nat] ==
            IF p[2] > SearchMaxGoals THEN p[1]
            ELSE rows[<<searchRow(p[1], lh, la, p[2], p[3]), p[2] + 1, 0>>]
    IN  rows[<<best, h, a>>]

\* lines 181-193
findMostLikelyScore(lh, la) == searchLoop(NoScore, lh, la, 0, 0)

\* lines 196-217
PredictionResponse(probs, lh, la, score) ==
    [status |-> 200, ok |-> TRUE, error |-> "", code |-> "", message |-> NoMessage,
     data |-> [prediction |-> [homeWin |-> probs.pHomeWin, draw |-> probs.pDraw,
                               awayWin |-> probs.pAwayWin],
               expectedGoals |-> [home |-> lh, away |-> la],
               overUnder |-> [over15 |-> probs.pOver15, over25 |-> probs.pOver25],
               mostLikelyScore |-> score]]

HistoriesReady ==
    /\ routePc = "histories"
    /\ \A side \in Sides : history[side].state \in {"cached", "fetched"}

\* lines 158-175: the home estimate throws; the away one is not started
EstimateHomeFails ==
    /\ HistoriesReady
    /\ estimate("home").kind # "rate"
    /\ events' = Append(events, Event("estimate", fixture.home,
                                      modeFor("home", body.useHomeAwaySplit.v = 1)))
    /\ Respond(InsufficientDataResponse(estimate("home")))
    /\ UNCHANGED <<body, apiKey, now, cache, fixture, history, mostLikelyScore>>
    /\ UNCHANGED <<lamVars, pmfVars, outVars, sysVars>>

\* lines 158-175: the away estimate throws
EstimateAwayFails ==
    /\ HistoriesReady
    /\ estimate("home").kind = "rate"
    /\ estimate("away").kind # "rate"
    /\ events' = events \o
                 <<Event("estimate", fixture.home, modeFor("home", body.useHomeAwaySplit.v = 1)),
                   Event("estimate", fixture.away, modeFor("away", body.useHomeAwaySplit.v = 1))>>
    /\ Respond(InsufficientDataResponse(estimate("away")))
    /\ UNCHANGED <<body, apiKey, now, cache, fixture, history, mostLikelyScore>>
    /\ UNCHANGED <<lamVars, pmfVars, outVars, sysVars>>

\* lines 158-217: both rates, the outcome sums over 0..6, the most likely
\* score and the answer
Predict ==
    /\ HistoriesReady
    /\ estimate("home").kind = "rate"
    /\ estimate("away").kind = "rate"
    /\ LET lh == estimate("home").rate
           la == estimate("away").rate
           probs == computeOutcomeProbs(lh, la, OutcomeMaxGoals)
           score == findMostLikelyScore(lh, la)
       IN  /\ lambdaHome' = lh
           /\ lambdaAway' = la
           /\ maxGoals' = OutcomeMaxGoals
           /\ homeGoals' = OutcomeMaxGoals + 1
           /\ awayGoals' = 0
           /\ pHomeWin' = probs.pHomeWin
           /\ pDraw' = probs.pDraw
           /\ pAwayWin' = probs.pAwayWin
           /\ pOver15' = probs.pOver15
           /\ pOver25' = probs.pOver25
           /\ outPc' = "returned"
           /\ mostLikelyScore' = score
           /\ Respond(PredictionResponse(probs, lh, la, score))
    /\ events' = events \o
                 <<Event("estimate", fixture.home, modeFor("home", body.useHomeAwaySplit.v = 1)),
                   Event("estimate", fixture.away, modeFor("away", body.useHomeAwaySplit.v = 1)),
                   Event("computeOutcomeProbs", 0, "")>>
    /\ UNCHANGED <<body, apiKey, now, cache, fixture, history, prediction>>
    /\ UNCHANGED <<lamVars, pmfVars, sysVars>>

NextRoute ==
    \/ RejectInvalidJson
    \/ ThrowOnNullBody
    \/ RejectFixtureId
    \/ RejectWindow
    \/ RejectSplit
    \/ RejectMissingKey
    \/ RequestFixture
    \/ FixtureFails
    \/ FixtureNotFound
    \/ FixtureArrives
    \/ HistoryArrives
    \/ HistoryFails
    \/ EstimateHomeFails
    \/ EstimateAwayFails
    \/ Predict

SpecRoute == InitRoute /\ [][NextRoute]_vars

----------------------------------------------------------------------------
(* Properties of POST /api/poisson, checked under SpecRoute *)

Answered == routePc = "responded"

Succeeded == Answered /\ response.ok

EventsOf(ops) == SelectSeq(events, LAMBDA e : e.op \in ops)

ScoreGrid == (0..OutcomeMaxGoals) \X (0..OutcomeMaxGoals)

\* the cell of the matrix the outcome sums of this prediction add up
GridProb(c) ==
    PMul(poissonPmf(response.data.expectedGoals.home, c[1]),
         poissonPmf(response.data.expectedGoals.away, c[2]))

\* (h, a) comes no later than c in the order of the two loops
NoLater(h, a, c) == h < c[1] \/ (h = c[1] /\ a <= c[2])

\* C11: the most likely score of a prediction is a cell of highest probability
\* of the grid 0..6 x 0..6, the grid its outcome sums are taken over; among
\* cells of equal highest probability it is the first in (home, away)
\* lexicographic order; the probability reported is that cell's.
C11_MostLikelyScore ==
    Succeeded =>
        LET best == response.data.mostLikelyScore
        IN  /\ SearchMaxGoals = OutcomeMaxGoals
            /\ maxGoals = OutcomeMaxGoals
            /\ <<best.home, best.away>> \in ScoreGrid
            /\ best.probability = GridProb(<<best.home, best.away>>)
            /\ \A c \in ScoreGrid :
                  /\ PLeq(GridProb(c), best.probability)
                  /\ GridProb(c) = best.probability => NoLater(best.home, best.away, c)

C11_Witness ==
    /\ Succeeded
    /\ response.data.expectedGoals.home = <<1, 1>>
    /\ response.data.mostLikelyScore.home = 0
    /\ GridProb(<<1, response.data.mostLikelyScore.away>>) = response.data.mostLikelyScore.probability

BothHistoriesIn == \A side \in Sides : history[side].state \in {"cached", "fetched"}

\* C17: when the estimate of either side fails the answer is INSUFFICIENT_DATA
\* with status 400, the estimator's message and no prediction; in a
\* successful answer the expected goals are the two estimates and the
\* probabilities are the outcome sums of those two values.
C17_NoFabricatedRate ==
    /\ (Answered /\ BothHistoriesIn /\ \E side \in Sides : estimate(side).kind # "rate") =>
          /\ response.error = "INSUFFICIENT_DATA"
          /\ response.status = 400
          /\ ~response.ok
          /\ response.data = NoData
          /\ \E side \in Sides :
                /\ estimate(side).kind = "INSUFFICIENT_DATA"
                /\ response.message.what = estimate(side).what
                /\ response.message.need = estimate(side).need
                /\ response.message.got = estimate(side).got
                /\ side = "away" => estimate("home").kind = "rate"
    /\ (Answered /\ response.error = "INSUFFICIENT_DATA") =>
          (BothHistoriesIn /\ \E side \in Sides : estimate(side).kind # "rate")
    /\ Succeeded =>
          /\ BothHistoriesIn
          /\ estimate("home").kind = "rate" /\ estimate("away").kind = "rate"
          /\ response.data.expectedGoals.home = estimate("home").rate
          /\ response.data.expectedGoals.away = estimate("away").rate
          /\ LET probs == computeOutcomeProbs(estimate("home").rate, estimate("away").rate,
                                              OutcomeMaxGoals)
             IN  /\ response.data.prediction.homeWin = probs.pHomeWin
                 /\ response.data.prediction.draw = probs.pDraw
                 /\ response.data.prediction.awayWin = probs.pAwayWin
                 /\ response.data.overUnder.over15 = probs.pOver15
                 /\ response.data.overUnder.over25 = probs.pOver25

C17_Witness ==
    /\ Answered
    /\ response.error = "INSUFFICIENT_DATA"
    /\ estimate("home").kind = "rate"
    /\ response.message.what = "finished matches"
    /\ response.message.got = 2

SplitRequested == body.useHomeAwaySplit = JsonBoolean(TRUE)

\* C18: a successful request is one estimate per side and then one outcome
\* computation: with useHomeAwaySplit the home team's rate is estimated with
\* HOME_ONLY over the home team's history and the away team's with AWAY_ONLY
\* over the away team's; without it both with ALL; computeOutcomeProbs is
\* called once, after both.
C18_OneEstimatePerSide ==
    Succeeded =>
        LET homeMode == IF SplitRequested THEN "HOME_ONLY" ELSE "ALL"
            awayMode == IF SplitRequested THEN "AWAY_ONLY" ELSE "ALL"
            home == computeLambdasFromMatches(history["home"].data, fixture.home, homeMode)
            away == computeLambdasFromMatches(history["away"].data, fixture.away, awayMode)
        IN  /\ EventsOf({"estimate", "computeOutcomeProbs"}) =
                   <<Event("estimate", fixture.home, homeMode),
                     Event("estimate", fixture.away, awayMode),
                     Event("computeOutcomeProbs", 0, "")>>
            /\ home.kind = "rate" /\ away.kind = "rate"
            /\ response.data.expectedGoals = [home |-> home.rate, away |-> away.rate]
            /\ lambdaHome = home.rate /\ lambdaAway = away.rate
            /\ \A side \in Sides :
                  \A j \in 1..Len(history[side].data) :
                     teamOf(fixture, side) \in {history[side].data[j].home,
                                                history[side].data[j].away}

C18_Witness ==
    /\ Succeeded
    /\ SplitRequested
    /\ history["home"].state = "fetched"
    /\ history["away"].state = "cached"
    /\ response.data.expectedGoals.home # response.data.expectedGoals.away

Failures == EventsOf({"provider failed"})

\* C19: a provider failure on the fixture or on either history is answered
\* APISPORTS_ERROR with status 500 and a message holding the provider's
\* message; no rate is estimated; the history endpoint is called only after
\* the fixture has been fetched.
C19_ProviderFailureSurfaced ==
    /\ Failures # <<>> =>
          /\ Answered
          /\ response.error = "APISPORTS_ERROR"
          /\ response.status = 500
          /\ ~response.ok
          /\ response.data = NoData
          /\ response.message.cause = Failures[1].arg
          /\ response.message.cause \in ProviderErrors
          /\ EventsOf({"estimate", "computeOutcomeProbs"}) = <<>>
    /\ (Answered /\ response.error = "APISPORTS_ERROR") => Failures # <<>>
    /\ \A j \in 1..Len(events) :
          events[j].op = "provider /fixtures team" =>
              /\ fixture = KnownFixture
              /\ events[1].op = "provider /fixtures id"
              /\ \A q \in 1..j : events[q].op # "provider failed"

C19_Witness ==
    /\ Len(Failures) = 1
    /\ Failures[1].team = KnownFixture.away
    /\ history["home"].state = "fetched"
    /\ response.message.cause = "API-Sports request timed out after 10s"

IsPositiveNumber(x) == x.t = "number" /\ x.v > 0
IsWindow(x) == x.t = "number" /\ x.v >= MinWindow /\ x.v <= MaxWindow
IsBoolean(x) == x.t = "boolean"

Untouched ==
    /\ events = <<>>
    /\ \E env \in Environments : now = env[1] /\ cache = env[2]

BadInput == response.error = "BAD_INPUT" /\ response.status = 400 /\ ~response.ok

\* what the handler does with the bodies that have fields: the three checks in
\* order, then the key, all before any provider call or cache access
ObjectBodiesRejected ==
    (Answered /\ body.kind = "object") =>
        /\ ~(IsPositiveNumber(body.fixtureId) /\ IsWindow(body.window)
                /\ IsBoolean(body.useHomeAwaySplit)) => (BadInput /\ Untouched)
        /\ (IsPositiveNumber(body.fixtureId) /\ IsWindow(body.window)
                /\ IsBoolean(body.useHomeAwaySplit) /\ ~apiKey) =>
              /\ response.error = "MISSING_API_KEY"
              /\ response.status = 500
              /\ Untouched

\* C20: a body whose fixtureId is not a positive number, whose window is not a
\* number in 3..50 or whose useHomeAwaySplit is not a boolean is answered
\* BAD_INPUT with status 400, a valid one without API key MISSING_API_KEY with
\* status 500, and in all these cases no provider call is made and the cache
\* is neither read nor written.
C20_RejectsBadRequests ==
    /\ ObjectBodiesRejected
    /\ (Answered /\ body.kind \in {"null", "invalid"}) => (BadInput /\ Untouched)

\* the body null: the answer is INTERNAL_ERROR with status 500
C20_Witness ==
    /\ Answered
    /\ body.kind = "null"
    /\ response.error = "INTERNAL_ERROR"
    /\ response.status = 500
    /\ Untouched

-----------------------------------------------------------------------------------------------------------------------------------------
(* The legacy prediction against computeOutcomeProbs, checked under SpecOutcome *)

BothReturned == outPc = "returned" /\ prediction # NoPrediction

\* C27: called with the same two rates and the same maxGoals, the legacy
\* calculatePoissonPrediction returns homeWin, draw and awayWin equal to the
\* pHomeWin, pDraw and pAwayWin of computeOutcomeProbs, and a scoreMatrix of
\* exactly (maxGoals + 1) x (maxGoals + 1) cells with
\* scoreMatrix[h][a] = poissonPmf(home rate, h) * poissonPmf(away rate, a);
\* the rates are handed back as expectedGoals.
C27_LegacyAgrees ==
    BothReturned =>
        /\ prediction.homeWin = pHomeWin
        /\ prediction.draw = pDraw
        /\ prediction.awayWin = pAwayWin
        /\ DOMAIN prediction.scoreMatrix = 0..maxGoals
        /\ \A h \in 0..maxGoals : DOMAIN prediction.scoreMatrix[h] = 0..maxGoals
        /\ \A h \in 0..maxGoals :
             \A a \in 0..maxGoals :
                prediction.scoreMatrix[h][a] = CellProb(<<h, a>>)
        /\ prediction.expectedGoals = [home |-> lambdaHome, away |-> lambdaAway]

C27_Witness ==
    /\ BothReturned
    /\ maxGoals = MaxMaxGoals
    /\ RLess(<<0, 1>>, lambdaHome)
    /\ RLess(lambdaHome, lambdaAway)
    /\ PLess(prediction.homeWin, prediction.awayWin)
    /\ prediction.scoreMatrix[0][maxGoals] # prediction.scoreMatrix[maxGoals][0]

----------------
(* The two derivations of a scoreline probability, checked under SpecPmf *)

SearchCounts == 0..SearchMaxGoals

\* C25: for every lambda >= 0, zero included, and every k in 0..6 the direct
\* formula e^(-lambda) * lambda^k / k! of the most-likely-score search equals
\* poissonPmf(lambda, k), and so the product of two direct values equals the
\* matrix cell, the product of the two poissonPmf values.
C25_DirectFormulaAgrees ==
    (pmfPc = "returned" /\ RLeq(<<0, 1>>, lambda)) =>
        /\ (k \in SearchCounts) => directProb(lambda, k) = pmfResult
        /\ \A h \in SearchCounts : directProb(lambda, h) = poissonPmf(lambda, h)
        /\ (k \in SearchCounts) =>
              \A a \in 0..2 :
                  PMul(directProb(lambda, k), directProb(lambda, a)) =
                      PMul(pmfResult, poissonPmf(lambda, a))

C25_Witness ==
    /\ pmfPc = "returned"
    /\ k = MaxK
    /\ RLess(<<1, 1>>, lambda)
    /\ lambda[2] # 1
    /\ pmfResult = directProb(lambda, k)
    /\ pmfResult # Zero
    /\ directProb(<<0, 1>>, 0) = One

----------------------------------------------------------------------------
(* memoryCache.ts on its own: the calls request handlers and the periodic  *)
(* cleanup make on the singleton, in any order, as time passes.  Each      *)
(* method is synchronous, so each call is one step.                        *)

MaxTime == 4
MaxTtl == 2

CacheKeys == {"match:1", "history:1"}
CacheData == {<<1>>, <<2>>}
CacheTtls == 0..MaxTtl

\* everything outside the cache, its clock and its callers' view of it
cacheFrame ==
    <<lamVars, pmfVars, outVars, body, apiKey, routePc, fixture, history, events,
      mostLikelyScore, response, pairVars, matchVars, clientVars>>

\* line 70: the singleton, just constructed
NewCache == [NoCacheOp EXCEPT !.op = "new"]

InitCache ==
    /\ cacheOp = NewCache
    /\ lastSet = <<>>
    /\ LamIdle
    /\ PmfIdle
    /\ OutIdle
    /\ RouteIdle
    /\ PairIdle
    /\ MatchIdle
    /\ ClientIdle

CacheOp(op, key, hit, data) == [op |-> op, key |-> key, at |-> now, hit |-> hit, data |-> data]

\* lines 15-18
CacheSet ==
    \E key \in CacheKeys, data \in CacheData, ttlMs \in CacheTtls :
        /\ cache' = cacheSet(cache, key, data, ttlMs, now)
        /\ cacheOp' = CacheOp("set", key, FALSE, data)
        /\ lastSet' = [q \in DOMAIN lastSet \cup {key} |->
                          IF q = key THEN [data |-> data, at |-> now, ttl |-> ttlMs]
                          ELSE lastSet[q]]
        /\ UNCHANGED <<now, cacheFrame>>

\* lines 20-33
CacheGet ==
    \E key \in CacheKeys :
        LET got == cacheGet(cache, key, now)
        IN  /\ cache' = got.cache
            /\ cacheOp' = CacheOp("get", key, got.hit, got.data)
            /\ UNCHANGED <<now, lastSet, cacheFrame>>

\* lines 35-48
CacheHas ==
    \E key \in CacheKeys :
        LET got == cacheHas(cache, key, now)
        IN  /\ cache' = got.cache
            /\ cacheOp' = CacheOp("has", key, got.hit, <<>>)
            /\ UNCHANGED <<now, lastSet, cacheFrame>>

\* lines 50-52
CacheDelete ==
    \E key \in CacheKeys :
        /\ cache' = cacheDelete(cache, key)
        /\ cacheOp' = CacheOp("delete", key, FALSE, <<>>)
        /\ lastSet' = [q \in DOMAIN lastSet \ {key} |-> lastSet[q]]
        /\ UNCHANGED <<now, cacheFrame>>

\* lines 54-56
CacheClear ==
    /\ cache' = cacheClear(cache)
    /\ cacheOp' = CacheOp("clear", "", FALSE, <<>>)
    /\ lastSet' = <<>>
    /\ UNCHANGED <<now, cacheFrame>>

\* lines 59-66 and 73-80: the sweep, whenever the interval timer runs it
CacheCleanup ==
    /\ cache' = cacheCleanup(cache, now)
    /\ cacheOp' = CacheOp("cleanup", "", FALSE, <<>>)
    /\ UNCHANGED <<now, lastSet, cacheFrame>>

\* Date.now() moves on
CacheTick ==
    /\ now < MaxTime
    /\ now' = now + 1
    /\ UNCHANGED <<cache, cacheVars, cacheFrame>>

\* the calls are explored where the cache is on its own
CacheAlone == cacheOp # NoCacheOp

NextCache ==
    \/ CacheAlone /\ CacheSet
    \/ CacheAlone /\ CacheGet
    \/ CacheAlone /\ CacheHas
    \/ CacheAlone /\ CacheDelete
    \/ CacheAlone /\ CacheClear
    \/ CacheAlone /\ CacheCleanup
    \/ CacheAlone /\ CacheTick

SpecCache == InitCache /\ [][NextCache]_vars

\* the last call was a get or has of a key set earlier and neither deleted nor
\* cleared since
AskedAfterSet ==
    /\ cacheOp.op \in {"get", "has"}
    /\ cacheOp.key \in DOMAIN lastSet

Deadline(key) == lastSet[key].at + lastSet[key].ttl

\* C21: after set(k, v, ttl) at time t, and until k is set again, deleted or
\* cleared, get(k) returns v at every time up to and including t + ttl and
\* null at every later time; no get returns data past its expiry; a get or
\* has of an expired key removes the entry.
C21_TimeToLive ==
    /\ (AskedAfterSet /\ cacheOp.at <= Deadline(cacheOp.key)) =>
          /\ cacheOp.hit
          /\ cacheOp.op = "get" => cacheOp.data = lastSet[cacheOp.key].data
    /\ (AskedAfterSet /\ cacheOp.at > Deadline(cacheOp.key)) =>
          /\ ~cacheOp.hit
          /\ cacheOp.key \notin DOMAIN cache
    /\ (cacheOp.op \in {"get", "has"} /\ cacheOp.hit) =>
          /\ AskedAfterSet
          /\ cacheOp.key \in DOMAIN cache
          /\ cacheOp.at <= cache[cacheOp.key].expiry
    /\ (cacheOp.op \in {"get", "has"} /\ cacheOp.key \notin DOMAIN lastSet) => ~cacheOp.hit

\* a get at the last moment of an entry's life, which still returns the data
C21_Witness ==
    /\ cacheOp.op = "get"
    /\ cacheOp.hit
    /\ cacheOp.key \in DOMAIN lastSet
    /\ lastSet[cacheOp.key].ttl = MaxTtl
    /\ cacheOp.at = Deadline(cacheOp.key)
    /\ cacheOp.data = <<2>>

\* what a caller can read of the cache at time t: the keys a get answers and
\* the data it answers with
Readable(c, t) == { <<q, c[q].data>> : q \in { r \in DOMAIN c : ~(t > c[r].expiry) } }

\* the entry under every key is the one of the last set of that key
OneEntryPerKey ==
    /\ DOMAIN cache \subseteq DOMAIN lastSet
    /\ \A q \in DOMAIN cache :
          cache[q] = [data |-> lastSet[q].data, expiry |-> Deadline(q)]

\* a get answers null or the data of the last set of its key
ReadsLastWrite ==
    (cacheOp.op = "get" /\ cacheOp.hit) =>
        /\ cacheOp.key \in DOMAIN lastSet
        /\ cacheOp.data = lastSet[cacheOp.key].data

\* the state a set leaves is the state the same set, made again, leaves
WriteTwiceIsWriteOnce ==
    (cacheOp.op = "set" /\ cacheOp.at = now) =>
        LET again == cacheSet(cache, cacheOp.key, cacheOp.data, lastSet[cacheOp.key].ttl, now)
        IN  /\ again = cache
            /\ \A t \in now..MaxTime : Readable(again, t) = Readable(cache, t)

\* a step of cleanup() drops expired entries and nothing else
CleanupStep ==
    (cacheOp'.op = "cleanup" /\ now' = now) =>
        /\ DOMAIN cache' \subseteq DOMAIN cache
        /\ \A q \in DOMAIN cache' : cache'[q] = cache[q]
        /\ \A q \in DOMAIN cache \ DOMAIN cache' : now > cache[q].expiry

\* a step of set, get, has or delete leaves the entries of the other keys alone
OtherKeysKept ==
    (cacheOp'.op \in {"set", "get", "has", "delete"} /\ now' = now) =>
        \A q \in CacheKeys \ {cacheOp'.key} :
            /\ q \in DOMAIN cache' <=> q \in DOMAIN cache
            /\ q \in DOMAIN cache => cache'[q] = cache[q]

\* C22: under any interleaving of set, get, has, delete, clear and cleanup
\* each key holds at most one entry, that of the last set of the key; a get
\* returns null or the data of the last set of its key; writing the same key
\* and data twice leaves what writing it once leaves; cleanup removes only
\* entries whose expiry has passed.
C22_OverwriteSafe ==
    /\ [](OneEntryPerKey /\ ReadsLastWrite /\ WriteTwiceIsWriteOnce)
    /\ [][CleanupStep /\ OtherKeysKept]_vars

\* a sweep has removed the expired entry of one key and kept the entry of the
\* other, which is at the last moment of its life
C22_Witness ==
    /\ cacheOp.op = "cleanup"
    /\ DOMAIN lastSet = CacheKeys
    /\ DOMAIN cache = {"history:1"}
    /\ cache["history:1"].expiry = now
    /\ lastSet["match:1"].at < now

----------------------------------------------------------------------------
(* route.ts: two POST /api/poisson requests for the same fixture, window   *)
(* and split, running together on one server.  A handler runs until its    *)
(* next await, so the steps of the two interleave at the provider calls.   *)
(* Both run well within the ten minutes an entry lives, at one time.       *)

Requests == {"first", "second"}

\* what the provider may answer for a team's last matches: three finished
\* matches at the venue the team has in the known fixture
PairAnswers(team) ==
    { IF team = KnownFixture.home THEN TeamHistory(team, MinWindow, 0, g, FALSE)
      ELSE TeamHistory(team, 0, MinWindow, g, FALSE) : g \in 0..MaxRouteGoal }

PairError == "API-Sports request failed: 500 Internal Server Error"

NewRequest ==
    [pc |-> "idle", history |-> [home |-> NotFetched, away |-> NotFetched],
     response |-> NoResponse]

InitPair ==
    /\ body \in [kind : {"object"}, fixtureId : {JsonNumber(1)}, window : {JsonNumber(MinWindow)},
                 useHomeAwaySplit : {JsonBoolean(TRUE), JsonBoolean(FALSE)}]
    /\ apiKey = TRUE
    /\ now = 0
    /\ cache = <<>>
    /\ routePc = "idle"
    /\ fixture = KnownFixture
    /\ history = [home |-> NotFetched, away |-> NotFetched]
    /\ events = <<>>
    /\ mostLikelyScore = NoScore
    /\ response = NoResponse
    /\ reqs = [r \in Requests |-> NewRequest]
    /\ answered = [team \in {KnownFixture.home, KnownFixture.away} |-> {}]
    /\ writes = [team \in {KnownFixture.home, KnownFixture.away} |-> <<>>]
    /\ LamIdle
    /\ PmfIdle
    /\ OutIdle
    /\ CacheIdle
    /\ MatchIdle
    /\ ClientIdle

\* everything the two handlers leave alone
pairFrame ==
    <<lamVars, pmfVars, outVars, cacheVars, matchVars, clientVars, body, apiKey, now, routePc, fixture,
      history, events, mostLikelyScore, response>>

\* lines 37-82: the body passes the checks and the fixture is asked for; the
\* request named first is the one that arrives first
PairStart(r) ==
    /\ reqs[r].pc = "idle"
    /\ r = "second" => reqs["first"].pc # "idle"
    /\ validBody(body) /\ apiKey
    /\ reqs' = [reqs EXCEPT ![r].pc = "fixture"]
    /\ UNCHANGED <<cache, answered, writes, pairFrame>>

\* lines 108-124: one fetchTeamHistory up to its await: the cached data, or
\* a provider call that is now pending
pairFetch(c, team, window, t) ==
    LET got == cacheGet(c, cacheKey(team, window), t)
    IN  [cache |-> got.cache,
         entry |-> IF got.hit THEN [state |-> "cached", data |-> got.data]
                   ELSE [state |-> "pending", data |-> <<>>]]

\* lines 101-144: the fixture is mapped and both fetchTeamHistory calls run
\* up to their await, the home team's first
PairFixtureArrives(r) ==
    /\ reqs[r].pc = "fixture"
    /\ LET h == pairFetch(cache, fixture.home, body.window.v, now)
           a == pairFetch(h.cache, fixture.away, body.window.v, now)
       IN  /\ cache' = a.cache
           /\ reqs' = [reqs EXCEPT ![r].pc = "histories",
                                   ![r].history = [home |-> h.entry, away |-> a.entry]]
    /\ UNCHANGED <<answered, writes, pairFrame>>

\* lines 126-131: the provider answers one history call; it is cached
PairHistoryArrives(r) ==
    /\ reqs[r].pc \in {"histories", "responded"}
    /\ \E side \in Sides :
          /\ reqs[r].history[side].state = "pending"
          /\ \E fixtures \in PairAnswers(teamOf(fixture, side)) :
                /\ Len(fixtures) <= body.window.v
                /\ cache' = cacheSet(cache, cacheKey(teamOf(fixture, side), body.window.v),
                                     fixtures, HISTORY_CACHE_TTL_MS, now)
                /\ reqs' = [reqs EXCEPT ![r].history[side] =
                                            [state |-> "fetched", data |-> fixtures]]
                /\ answered' = [answered EXCEPT ![teamOf(fixture, side)] = @ \cup {fixtures}]
                /\ writes' = [writes EXCEPT ![teamOf(fixture, side)] = Append(@, r)]
    /\ UNCHANGED pairFrame

\* lines 132-134 and 145-152: one history call throws
PairHistoryFails(r) ==
    /\ reqs[r].pc \in {"histories", "responded"}
    /\ \E side \in Sides :
          /\ reqs[r].history[side].state = "pending"
          /\ reqs' = [reqs EXCEPT
                        ![r].history[side] = [state |-> "failed", data |-> <<>>],
                        ![r].pc = "responded",
                        ![r].response =
                            IF reqs[r].pc = "histories"
                            THEN ApiSportsErrorResponse("Failed to fetch history for team ",
                                                        teamOf(fixture, side), PairError)
                            ELSE @]
    /\ UNCHANGED <<cache, answered, writes, pairFrame>>

\* lines 158-217 for the histories h a handler holds
answerFrom(h, split) ==
    LET home == computeLambdasFromMatches(h["home"].data, KnownFixture.home,
                                          modeFor("home", split))
        away == computeLambdasFromMatches(h["away"].data, KnownFixture.away,
                                          modeFor("away", split))
    IN  IF home.kind # "rate" THEN InsufficientDataResponse(home)
        ELSE IF away.kind # "rate" THEN InsufficientDataResponse(away)
        ELSE PredictionResponse(computeOutcomeProbs(home.rate, away.rate, OutcomeMaxGoals),
                                home.rate, away.rate,
                                findMostLikelyScore(home.rate, away.rate))

\* lines 140-217: Promise.all has resolved; the rates, the prediction, the answer
PairAnswer(r) ==
    /\ reqs[r].pc = "histories"
    /\ \A side \in Sides : reqs[r].history[side].state \in {"cached", "fetched"}
    /\ reqs' = [reqs EXCEPT ![r].pc = "responded",
                            ![r].response = answerFrom(reqs[r].history,
                                                       body.useHomeAwaySplit.v = 1)]
    /\ UNCHANGED <<cache, answered, writes, pairFrame>>

NextPair ==
    \/ \E r \in DOMAIN reqs : PairStart(r)
    \/ \E r \in DOMAIN reqs : PairFixtureArrives(r)
    \/ \E r \in DOMAIN reqs : PairHistoryArrives(r)
    \/ \E r \in DOMAIN reqs : PairHistoryFails(r)
    \/ \E r \in DOMAIN reqs : PairAnswer(r)

SpecPair == InitPair /\ [][NextPair]_vars

PairTeams == {KnownFixture.home, KnownFixture.away}

sideOf(team) == IF team = KnownFixture.home THEN "home" ELSE "away"

Served(r) ==
    /\ reqs[r].pc = "responded"
    /\ \A side \in Sides : reqs[r].history[side].state \in {"cached", "fetched"}

\* the provider has given one and the same answer every time it was asked
\* for a team's history
SteadyProvider == \A team \in PairTeams : Cardinality(answered[team]) <= 1

\* C23: for a fixed provider answer for the two histories, POST /api/poisson
\* returns the same prediction whether a history is served from the cache or
\* fetched from the provider.
C23_CacheAgnostic ==
    /\ \A r \in Requests, side \in Sides :
          reqs[r].history[side].state = "cached" =>
              reqs[r].history[side].data \in answered[teamOf(fixture, side)]
    /\ (SteadyProvider /\ Served("first") /\ Served("second")) =>
          /\ reqs["first"].response.ok
          /\ reqs["second"].response = reqs["first"].response

\* the first request fetched both histories, the second was served the home
\* history from the cache and fetched the away history itself
C23_Witness ==
    /\ SteadyProvider
    /\ Served("first") /\ Served("second")
    /\ reqs["first"].history["home"].state = "fetched"
    /\ reqs["first"].history["away"].state = "fetched"
    /\ reqs["second"].history["home"].state = "cached"
    /\ reqs["second"].history["away"].state = "fetched"
    /\ reqs["second"].response.ok
    /\ reqs["second"].response.data.expectedGoals.home # reqs["second"].response.data.expectedGoals.away

Last(seq) == seq[Len(seq)]

Fetchers(team) == { r \in Requests : reqs[r].history[sideOf(team)].state = "fetched" }

\* C29: concurrent misses of one key are not coalesced: every request that
\* missed calls the provider and writes what it got, the entry left in the
\* cache is the one written last, and each request computes its prediction
\* from the data it holds itself.
C29_MissesNotCoalesced ==
    /\ \A team \in PairTeams :
          /\ { writes[team][j] : j \in 1..Len(writes[team]) } = Fetchers(team)
          /\ Len(writes[team]) = Cardinality(Fetchers(team))
          /\ writes[team] # <<>> =>
                /\ cacheKey(team, body.window.v) \in DOMAIN cache
                /\ cache[cacheKey(team, body.window.v)].data =
                       reqs[Last(writes[team])].history[sideOf(team)].data
          /\ writes[team] = <<>> => cacheKey(team, body.window.v) \notin DOMAIN cache
    /\ \A r \in Requests :
          Served(r) =>
              /\ reqs[r].response.ok
              /\ \A side \in Sides :
                    LET own == computeLambdasFromMatches(
                                   reqs[r].history[side].data, teamOf(fixture, side),
                                   IF body.useHomeAwaySplit.v = 1
                                   THEN (IF side = "home" THEN "HOME_ONLY" ELSE "AWAY_ONLY")
                                   ELSE "ALL")
                    IN  /\ own.kind = "rate"
                        /\ reqs[r].response.data.expectedGoals[side] = own.rate

\* both requests missed the home team's key and both wrote it; the provider
\* answered the second request first, so the entry left is the first one's,
\* and the two requests answer with different home rates
C29_Witness ==
    /\ Served("first") /\ Served("second")
    /\ writes[KnownFixture.home] = <<"second", "first">>
    /\ reqs["first"].history["home"].data # reqs["second"].history["home"].data
    /\ cache[cacheKey(KnownFixture.home, body.window.v)].data = reqs["first"].history["home"].data
    /\ reqs["first"].response.data.expectedGoals.home #
           reqs["second"].response.data.expectedGoals.home

----------------------------------------------------------------------------
(* src/app/api/match/route.ts: GET /api/match?fixtureId=...                *)
(* Three requests, named in the order they arrive, on one server; a        *)
(* handler runs until its await on the provider, so requests interleave    *)
(* there, and time passes between any two steps.                           *)

CACHE_TTL_MS == 1800000

\* the versions of the match details the provider answers with
MaxVersion == 2

MatchRequests == <<"first", "second", "third">>

\* the fixture the provider knows; any other id is answered with no record
KnownFixtureId == 1

\* the instants at which something happens
MatchInstants == {0, CACHE_TTL_MS, CACHE_TTL_MS + 1}

\* searchParams.get('fixtureId'): null, or the characters of the value
NoParam == [present |-> FALSE, text |-> <<>>]
Param(text) == [present |-> TRUE, text |-> text]

\* "1a" is read as 1 by parseInt, as "1" is
MatchQueries ==
    {NoParam, Param(<<>>), Param(<<"a">>), Param(<<"-", "1">>), Param(<<"0">>),
     Param(<<"1", "a">>), Param(<<"2">>)}

Digits == {"0", "1", "2"}
digitValue(ch) == IF ch = "0" THEN 0 ELSE IF ch = "1" THEN 1 ELSE 2

\* the value of the longest prefix of digits of text, from position j on
RECURSIVE digitsPrefix(_, _, _)
digitsPrefix(text, j, acc) ==
    IF j <= Len(text) /\ text[j] \in Digits
    THEN digitsPrefix(text, j + 1, acc * 10 + digitValue(text[j]))
    ELSE acc

\* line 31: parseInt(fixtureId, 10): an optional sign, then digits; NaN when
\* no digit follows
parseInt(text) ==
    LET signed == Len(text) >= 1 /\ text[1] \in {"-", "+"}
        start == IF signed THEN 2 ELSE 1
    IN  IF start > Len(text) \/ text[start] \notin Digits
        THEN [nan |-> TRUE, v |-> 0]
        ELSE [nan |-> FALSE,
              v |-> IF signed /\ text[1] = "-" THEN -digitsPrefix(text, start, 0)
                    ELSE digitsPrefix(text, start, 0)]

\* line 21: !fixtureId
missingParam(q) == ~q.present \/ q.text = <<>>

\* line 32
invalidFixtureId(q) == parseInt(q.text).nan \/ parseInt(q.text).v <= 0

\* (a faulty variant: one key for every fixture)
matchKey_Shared(id) == <<"match", 0>>

\* line 52: `match:${fixtureIdNum}`
matchKey(id) == <<"match", id>>

NoMatchData == [fixture |-> 0, version |-> 0]
MatchDetails(id, v) == [fixture |-> id, version |-> v]

NoMatchResponse ==
    [status |-> 0, ok |-> FALSE, error |-> "", cached |-> "absent", data |-> NoMatchData]

MatchError(status, error) ==
    [status |-> status, ok |-> FALSE, error |-> error, cached |-> "absent",
     data |-> NoMatchData]

\* lines 57-61 and 85-89
MatchOk(data, cached) ==
    [status |-> 200, ok |-> TRUE, error |-> "", cached |-> IF cached THEN "true" ELSE "false",
     data |-> data]

NewMatchRequest ==
    [pc |-> "idle", query |-> NoParam, arrived |-> 0, seen |-> 0, called |-> FALSE,
     response |-> NoMatchResponse]

InitMatch ==
    /\ apiKey \in BOOLEAN
    /\ now = 0
    /\ cache = <<>>
    /\ mreqs = [j \in 1..Len(MatchRequests) |-> NewMatchRequest]
    /\ stores = <<>>
    /\ body = [kind |-> "none", fixtureId |-> JsonUndefined, window |-> JsonUndefined,
               useHomeAwaySplit |-> JsonUndefined]
    /\ routePc = "idle"
    /\ fixture = NoFixture
    /\ history = [home |-> NotFetched, away |-> NotFetched]
    /\ events = <<>>
    /\ mostLikelyScore = NoScore
    /\ response = NoResponse
    /\ LamIdle
    /\ PmfIdle
    /\ OutIdle
    /\ CacheIdle
    /\ PairIdle
    /\ ClientIdle

matchFrame ==
    <<lamVars, pmfVars, outVars, cacheVars, pairVars, clientVars, body, apiKey, routePc, fixture,
      history, events, mostLikelyScore, response>>

\* request j arrives with query q: requests are numbered as they arrive
Arrives(j, q) ==
    /\ mreqs[j].pc = "idle"
    /\ j > 1 => mreqs[j - 1].pc # "idle"
    /\ q \in MatchQueries

Arrived(j, q, pc, called, r) ==
    [mreqs EXCEPT ![j] = [pc |-> pc, query |-> q, arrived |-> now, seen |-> Len(stores),
                          called |-> called, response |-> r]]

\* lines 21-28
MatchRejectMissing(j) ==
    \E q \in MatchQueries :
        /\ Arrives(j, q)
        /\ missingParam(q)
        /\ mreqs' = Arrived(j, q, "responded", FALSE, MatchError(400, "MISSING_PARAMETER"))
        /\ UNCHANGED <<now, cache, stores, matchFrame>>

\* lines 31-39
MatchRejectInvalid(j) ==
    \E q \in MatchQueries :
        /\ Arrives(j, q)
        /\ ~missingParam(q)
        /\ invalidFixtureId(q)
        /\ mreqs' = Arrived(j, q, "responded", FALSE, MatchError(400, "INVALID_FIXTURE_ID"))
        /\ UNCHANGED <<now, cache, stores, matchFrame>>

\* lines 42-49
MatchRejectNoKey(j) ==
    \E q \in MatchQueries :
        /\ Arrives(j, q)
        /\ ~missingParam(q)
        /\ ~invalidFixtureId(q)
        /\ ~apiKey
        /\ mreqs' = Arrived(j, q, "responded", FALSE, MatchError(500, "MISSING_API_KEY"))
        /\ UNCHANGED <<now, cache, stores, matchFrame>>

\* lines 51-62: the cache holds the result
MatchHit(j) ==
    \E q \in MatchQueries :
        /\ Arrives(j, q)
        /\ ~missingParam(q)
        /\ ~invalidFixtureId(q)
        /\ apiKey
        /\ LET got == cacheGet(cache, matchKey(parseInt(q.text).v), now)
           IN  /\ got.hit
               /\ cache' = got.cache
               /\ mreqs' = Arrived(j, q, "responded", FALSE, MatchOk(got.data, TRUE))
        /\ UNCHANGED <<now, stores, matchFrame>>

\* lines 51-67: it does not; the provider is called
MatchMiss(j) ==
    \E q \in MatchQueries :
        /\ Arrives(j, q)
        /\ ~missingParam(q)
        /\ ~invalidFixtureId(q)
        /\ apiKey
        /\ LET got == cacheGet(cache, matchKey(parseInt(q.text).v), now)
           IN  /\ ~got.hit
               /\ cache' = got.cache
               /\ mreqs' = Arrived(j, q, "awaiting", TRUE, NoMatchResponse)
        /\ UNCHANGED <<now, stores, matchFrame>>

\* lines 79-89: the provider answers with the fixture; it is mapped, cached
\* and returned
MatchFetched(j) ==
    /\ mreqs[j].pc = "awaiting"
    /\ parseInt(mreqs[j].query.text).v = KnownFixtureId
    /\ \E v \in 1..MaxVersion :
          LET data == MatchDetails(KnownFixtureId, v)
          IN  /\ cache' = cacheSet(cache, matchKey(KnownFixtureId), data, CACHE_TTL_MS, now)
              /\ stores' = Append(stores, [at |-> now, data |-> data, by |-> j])
              /\ mreqs' = [mreqs EXCEPT ![j].pc = "responded",
                                        ![j].response = MatchOk(data, FALSE)]
    /\ UNCHANGED <<now, matchFrame>>

\* lines 69-77: the provider answers with no fixture
MatchNotFound(j) ==
    /\ mreqs[j].pc = "awaiting"
    /\ parseInt(mreqs[j].query.text).v # KnownFixtureId
    /\ mreqs' = [mreqs EXCEPT ![j].pc = "responded",
                              ![j].response = MatchError(404, "FIXTURE_NOT_FOUND")]
    /\ UNCHANGED <<now, cache, stores, matchFrame>>

\* (a faulty variant: the failure is cached in place of a result)
MatchProviderFails_Cached(j) ==
    /\ mreqs[j].pc = "awaiting"
    /\ mreqs' = [mreqs EXCEPT ![j].pc = "responded",
                              ![j].response = MatchError(500, "INTERNAL_ERROR")]
    /\ cache' = cacheSet(cache, matchKey(parseInt(mreqs[j].query.text).v), NoMatchData,
                         CACHE_TTL_MS, now)
    /\ UNCHANGED <<now, stores, matchFrame>>

\* lines 90-100: apiSportsGet throws
MatchProviderFails(j) ==
    /\ mreqs[j].pc = "awaiting"
    /\ mreqs' = [mreqs EXCEPT ![j].pc = "responded",
                              ![j].response = MatchError(500, "INTERNAL_ERROR")]
    /\ UNCHANGED <<now, cache, stores, matchFrame>>

\* Date.now() moves on to a later instant
MatchTick ==
    /\ mreqs # <<>>
    /\ \E t \in MatchInstants : t > now /\ now' = t
    /\ UNCHANGED <<cache, matchVars, matchFrame>>

NextMatch ==
    \/ \E j \in DOMAIN mreqs : MatchRejectMissing(j)
    \/ \E j \in DOMAIN mreqs : MatchRejectInvalid(j)
    \/ \E j \in DOMAIN mreqs : MatchRejectNoKey(j)
    \/ \E j \in DOMAIN mreqs : MatchHit(j)
    \/ \E j \in DOMAIN mreqs : MatchMiss(j)
    \/ \E j \in DOMAIN mreqs : MatchFetched(j)
    \/ \E j \in DOMAIN mreqs : MatchNotFound(j)
    \/ \E j \in DOMAIN mreqs : MatchProviderFails(j)
    \/ MatchTick

SpecMatch == InitMatch /\ [][NextMatch]_vars

MatchIds == 1..Len(MatchRequests)

\* request j has passed the checks of lines 21-49
PassedChecks(j) ==
    /\ mreqs[j].pc \in {"awaiting", "responded"}
    /\ ~missingParam(mreqs[j].query)
    /\ ~invalidFixtureId(mreqs[j].query)
    /\ apiKey

AsksFor(j, id) == PassedChecks(j) /\ parseInt(mreqs[j].query.text).v = id

\* request j arrived no later than thirty minutes after the n-th store
Within30Minutes(j, n) == mreqs[j].arrived <= stores[n].at + CACHE_TTL_MS

ServedFromStore(j, n) ==
    /\ ~mreqs[j].called
    /\ mreqs[j].pc = "responded"
    /\ mreqs[j].response = MatchOk(stores[n].data, TRUE)

\* in a successful response cached is true exactly when the request made no
\* provider call
CachedFlagTellsTheTruth ==
    \A j \in MatchIds :
        (mreqs[j].pc = "responded" /\ mreqs[j].response.ok) =>
            /\ mreqs[j].response.cached \in {"true", "false"}
            /\ mreqs[j].response.cached = "true" <=> ~mreqs[j].called

\* C24 as stated: once a request has stored its result, every later request
\* for the fixture within 30 minutes of that store is answered with that
\* result and cached: true without a provider call; a request after the 30
\* minutes calls the provider and is answered cached: false.
C24_AsStated ==
    /\ CACHE_TTL_MS = 30 * 60 * 1000
    /\ CachedFlagTellsTheTruth
    /\ \A j \in MatchIds :
          AsksFor(j, KnownFixtureId) =>
              /\ \A n \in 1..mreqs[j].seen : Within30Minutes(j, n) => ServedFromStore(j, n)
              /\ (\A n \in 1..mreqs[j].seen : ~Within30Minutes(j, n)) =>
                    /\ mreqs[j].called
                    /\ (mreqs[j].pc = "responded" /\ mreqs[j].response.ok) =>
                          mreqs[j].response.cached = "false"

\* C24: a request for the fixture that arrives within 30 minutes of the
\* latest store of its result is answered with the result of that latest
\* store and cached: true without a provider call; a request that arrives
\* when nothing was stored, or more than 30 minutes after the latest store,
\* calls the provider and, when the provider answers with the fixture, stores
\* the answer and returns it with cached: false.  In a successful response
\* cached is true exactly when no provider call was made, and the data is of
\* the fixture asked for.
C24_MatchCached ==
    /\ CACHE_TTL_MS = 30 * 60 * 1000
    /\ CachedFlagTellsTheTruth
    /\ \A j \in MatchIds :
          /\ (mreqs[j].pc = "responded" /\ mreqs[j].response.ok) =>
                /\ PassedChecks(j)
                /\ mreqs[j].response.data.fixture = parseInt(mreqs[j].query.text).v
          /\ AsksFor(j, KnownFixtureId) =>
                LET n == mreqs[j].seen
                IN  /\ (n >= 1 /\ Within30Minutes(j, n)) => ServedFromStore(j, n)
                    /\ (n = 0 \/ ~Within30Minutes(j, n)) =>
                          /\ mreqs[j].called
                          /\ (mreqs[j].pc = "responded" /\ mreqs[j].response.ok) =>
                                /\ mreqs[j].response.cached = "false"
                                /\ \E q \in (n + 1)..Len(stores) :
                                      /\ stores[q].by = j
                                      /\ stores[q].data = mreqs[j].response.data
                                      /\ stores[q].at >= mreqs[j].arrived

\* two requests missed together and stored different results at time 0; the
\* third arrives exactly 30 minutes later and is served the second result
C24_Witness ==
    /\ Len(stores) = 2
    /\ stores[1].data # stores[2].data
    /\ stores[2].at = 0
    /\ mreqs[3].arrived = CACHE_TTL_MS
    /\ mreqs[3].seen = 2
    /\ mreqs[3].response = MatchOk(stores[2].data, TRUE)

----------------------------------------------------------------------------
(* The two endpoints side by side: one POST /api/poisson request, or three *)
(* GET /api/match requests, per behaviour                                  *)

InitEndpoints == InitRoute \/ InitMatch

NextEndpoints == NextRoute \/ NextMatch

SpecEndpoints == InitEndpoints /\ [][NextEndpoints]_vars

\* the step writes an entry: a key is new, or holds another entry than before
WritesCache == \E key \in DOMAIN cache' : key \notin DOMAIN cache \/ cache'[key] # cache[key]

\* the step is a match request getting the fixture from the provider and
\* storing it
MatchSuccessStep ==
    \E j \in DOMAIN mreqs :
        /\ mreqs[j].pc = "awaiting"
        /\ mreqs'[j].pc = "responded"
        /\ mreqs'[j].response.ok
        /\ mreqs'[j].response.cached = "false"
        /\ mreqs'[j].response.data.fixture = parseInt(mreqs[j].query.text).v
        /\ mreqs'[j].response.data.version >= 1
        /\ cache' = cacheSet(cache, matchKey(parseInt(mreqs[j].query.text).v),
                             mreqs'[j].response.data, CACHE_TTL_MS, now)

\* the step is a history fetch getting its answer from the provider and
\* storing it
HistorySuccessStep ==
    \E side \in Sides :
        /\ history[side].state = "pending"
        /\ history'[side].state = "fetched"
        /\ history'[side].data \in ProviderHistories(teamOf(fixture, side))
        /\ cache' = cacheSet(cache, cacheKey(teamOf(fixture, side), body.window.v),
                             history'[side].data, HISTORY_CACHE_TTL_MS, now)

\* the step answers a request with an error
AnswersError ==
    \/ routePc # "responded" /\ routePc' = "responded" /\ ~response'.ok
    \/ \E j \in DOMAIN mreqs :
          mreqs[j].pc # "responded" /\ mreqs'[j].pc = "responded" /\ ~mreqs'[j].response.ok

\* a history fetch fails
HistoryFailureStep ==
    \E side \in Sides : history[side].state = "pending" /\ history'[side].state = "failed"

\* what is served with cached: true is a result the provider gave
ServedResultsAreReal ==
    \A j \in DOMAIN mreqs :
        (mreqs[j].pc = "responded" /\ mreqs[j].response.cached = "true") =>
            /\ mreqs[j].response.ok
            /\ \E n \in 1..Len(stores) :
                  n <= mreqs[j].seen /\ stores[n].data = mreqs[j].response.data

\* C26: the cache is written only after the provider answered successfully
\* and the answer was mapped; a provider failure, a fixture-not-found answer
\* in GET /api/match (FIXTURE_NOT_FOUND, 404) and a validation failure leave
\* the cache as it was, so an error is never served with cached: true.
C26_OnlySuccessesCached ==
    /\ [][ /\ WritesCache => (MatchSuccessStep \/ HistorySuccessStep)
           /\ (AnswersError \/ HistoryFailureStep) => cache' = cache ]_vars
    /\ []ServedResultsAreReal
    /\ [](\A j \in DOMAIN mreqs :
             mreqs[j].response.error = "FIXTURE_NOT_FOUND" => mreqs[j].response.status = 404)

\* the first match request found no fixture, the second one's provider call
\* failed, the third stored a result: the cache holds that one entry
C26_Witness ==
    /\ mreqs # <<>>
    /\ mreqs[1].response.error = "FIXTURE_NOT_FOUND"
    /\ mreqs[2].response.error = "INTERNAL_ERROR"
    /\ mreqs[2].called
    /\ mreqs[3].response.ok
    /\ mreqs[3].response.cached = "false"
    /\ DOMAIN cache = {matchKey(KnownFixtureId)}
    /\ cache[matchKey(KnownFixtureId)].data = mreqs[3].response.data

----------------------------------------------------------------------------
(* src/lib/apisports/client.ts: apiSportsGet, one call from start to end.  *)
(* The provider and the network are the environment: the response may come *)
(* at any time or never, and so may its body.  A continuation that is      *)
(* ready runs before any timer callback (promise reactions are microtasks).*)

\* line 4
REQUEST_TIMEOUT_MS == 10000

\* the most keys the errors field of a body holds
MaxErrorKeys == 1

\* the times since the call at which something is looked at
ClientInstants ==
    {0, 1, REQUEST_TIMEOUT_MS - 1, REQUEST_TIMEOUT_MS, REQUEST_TIMEOUT_MS + 1,
     2 * REQUEST_TIMEOUT_MS}

\* the responses of the provider: status line, and whether the body is JSON
\* and how many keys its errors field has
HttpStatuses == {200, 404, 500}
ProviderResponses ==
    { [state |-> "resolved", ok |-> st = 200, status |-> st, json |-> j, errors |-> n,
       error |-> ""] :
        st \in HttpStatuses, j \in BOOLEAN, n \in 0..MaxErrorKeys }

Pending == [NoPromise EXCEPT !.state = "pending"]
Rejected(name) == [NoPromise EXCEPT !.state = "rejected", !.error = name]

\* what the call throws / returns
Thrown(name, message, status, errors) ==
    [kind |-> "thrown", name |-> name, message |-> message, status |-> status,
     errors |-> errors]
ReturnedData(r) ==
    [kind |-> "returned", name |-> "", message |-> "", status |-> r.status, errors |-> r.errors]

\* lines 7-19
getApiKey(key) == IF key THEN "key" ELSE "throws"

\* lines 69-77: the catch block's throw, for an error of the given name
rethrown(name) ==
    IF name = "AbortError"
    THEN Thrown("Error", "API-Sports request timed out after 10s", 0, 0)
    ELSE Thrown(name, IF name = "TypeError" THEN "fetch failed"
                      ELSE "Unexpected token in JSON", 0, 0)

InitClient ==
    /\ envKey \in BOOLEAN
    /\ elapsed = 0
    /\ timeoutId = "none"
    /\ aborted = FALSE
    /\ fetchPromise = NoPromise
    /\ bodyPromise = NoPromise
    /\ callPc = "start"
    /\ outcome = NoOutcome
    /\ LamIdle
    /\ PmfIdle
    /\ OutIdle
    /\ RouteIdle
    /\ CacheIdle
    /\ PairIdle
    /\ MatchIdle

clientFrame == <<lamVars, pmfVars, outVars, routeVars, cacheVars, pairVars, matchVars>>

\* a settled promise whose continuation has not run yet
ContinuationReady ==
    \/ callPc = "awaitFetch" /\ fetchPromise.state \in {"resolved", "rejected"}
    \/ callPc = "awaitJson" /\ bodyPromise.state \in {"resolved", "rejected"}

\* lines 32-53, 69-76: the timer is set, getApiKey throws while the headers
\* are built, the catch block clears the timer and throws the error on
CallWithoutKey ==
    /\ callPc = "start"
    /\ getApiKey(envKey) = "throws"
    /\ timeoutId' = "cleared"
    /\ callPc' = "thrown"
    /\ outcome' = Thrown("Error", "APISPORTS_API_KEY environment variable is not set", 0, 0)
    /\ UNCHANGED <<envKey, elapsed, aborted, fetchPromise, bodyPromise>>
    /\ UNCHANGED clientFrame

\* lines 32-53: the timer is set and the request sent
CallFetch ==
    /\ callPc = "start"
    /\ getApiKey(envKey) = "key"
    /\ timeoutId' = "armed"
    /\ fetchPromise' = Pending
    /\ callPc' = "awaitFetch"
    /\ UNCHANGED <<envKey, elapsed, aborted, bodyPromise, outcome>>
    /\ UNCHANGED clientFrame

\* time passes; an armed timer is not passed over
ClientTick ==
    /\ callPc \in {"awaitFetch", "awaitJson"}
    /\ ~ContinuationReady
    /\ \E t \in ClientInstants :
          /\ t > elapsed
          /\ timeoutId = "armed" => (elapsed < REQUEST_TIMEOUT_MS /\ t <= REQUEST_TIMEOUT_MS)
          /\ elapsed' = t
    /\ UNCHANGED <<envKey, timeoutId, aborted, fetchPromise, bodyPromise, callPc, outcome>>
    /\ UNCHANGED clientFrame

\* line 47, the environment: the response's status line and headers arrive
FetchResolves ==
    /\ callPc = "awaitFetch"
    /\ fetchPromise.state = "pending"
    /\ \E r \in ProviderResponses : fetchPromise' = r
    /\ UNCHANGED <<envKey, elapsed, timeoutId, aborted, bodyPromise, callPc, outcome>>
    /\ UNCHANGED clientFrame

\* line 47, the environment: the request fails (no connection)
FetchFails ==
    /\ callPc = "awaitFetch"
    /\ fetchPromise.state = "pending"
    /\ fetchPromise' = Rejected("TypeError")
    /\ UNCHANGED <<envKey, elapsed, timeoutId, aborted, bodyPromise, callPc, outcome>>
    /\ UNCHANGED clientFrame

\* line 44: the timer's callback, controller.abort(); a request or a body
\* read that is pending on the signal is rejected with an AbortError
TimerFires ==
    /\ timeoutId = "armed"
    /\ elapsed >= REQUEST_TIMEOUT_MS
    /\ ~ContinuationReady
    /\ timeoutId' = "fired"
    /\ aborted' = TRUE
    /\ fetchPromise' = IF fetchPromise.state = "pending" THEN Rejected("AbortError")
                       ELSE fetchPromise
    /\ bodyPromise' = IF bodyPromise.state = "pending" THEN Rejected("AbortError")
                      ELSE bodyPromise
    /\ UNCHANGED <<envKey, elapsed, callPc, outcome>>
    /\ UNCHANGED clientFrame

\* line 55
clearTimeout(id) == IF id = "armed" THEN "cleared" ELSE id

\* lines 55-61: the response is OK; the timer is cleared and the body read
AfterFetchOk ==
    /\ callPc = "awaitFetch"
    /\ fetchPromise.state = "resolved"
    /\ fetchPromise.ok
    /\ timeoutId' = clearTimeout(timeoutId)
    /\ bodyPromise' = Pending
    /\ callPc' = "awaitJson"
    /\ UNCHANGED <<envKey, elapsed, aborted, fetchPromise, outcome>>
    /\ UNCHANGED clientFrame

\* lines 55-59, 69-76: the response is not OK
AfterFetchNotOk ==
    /\ callPc = "awaitFetch"
    /\ fetchPromise.state = "resolved"
    /\ ~fetchPromise.ok
    /\ timeoutId' = clearTimeout(timeoutId)
    /\ callPc' = "thrown"
    /\ outcome' = Thrown("Error", "API-Sports request failed", fetchPromise.status, 0)
    /\ UNCHANGED <<envKey, elapsed, aborted, fetchPromise, bodyPromise>>
    /\ UNCHANGED clientFrame

\* lines 69-76: the request was rejected
AfterFetchRejected ==
    /\ callPc = "awaitFetch"
    /\ fetchPromise.state = "rejected"
    /\ timeoutId' = clearTimeout(timeoutId)
    /\ callPc' = "thrown"
    /\ outcome' = rethrown(fetchPromise.error)
    /\ UNCHANGED <<envKey, elapsed, aborted, fetchPromise, bodyPromise>>
    /\ UNCHANGED clientFrame

\* line 61, the environment: the whole body has arrived and is parsed, or
\* is not JSON
BodySettles ==
    /\ callPc = "awaitJson"
    /\ bodyPromise.state = "pending"
    /\ bodyPromise' = IF fetchPromise.json
                      THEN [fetchPromise EXCEPT !.state = "resolved"]
                      ELSE Rejected("SyntaxError")
    /\ UNCHANGED <<envKey, elapsed, timeoutId, aborted, fetchPromise, callPc, outcome>>
    /\ UNCHANGED clientFrame

\* lines 63-68
AfterJsonReturn ==
    /\ callPc = "awaitJson"
    /\ bodyPromise.state = "resolved"
    /\ bodyPromise.errors = 0
    /\ callPc' = "returned"
    /\ outcome' = ReturnedData(bodyPromise)
    /\ UNCHANGED <<envKey, elapsed, timeoutId, aborted, fetchPromise, bodyPromise>>
    /\ UNCHANGED clientFrame

\* lines 64-66, 69-76
AfterJsonErrors ==
    /\ callPc = "awaitJson"
    /\ bodyPromise.state = "resolved"
    /\ bodyPromise.errors > 0
    /\ timeoutId' = clearTimeout(timeoutId)
    /\ callPc' = "thrown"
    /\ outcome' = Thrown("Error", "API-Sports returned errors", bodyPromise.status,
                         bodyPromise.errors)
    /\ UNCHANGED <<envKey, elapsed, aborted, fetchPromise, bodyPromise>>
    /\ UNCHANGED clientFrame

\* lines 61, 69-76: the body read was rejected
AfterJsonRejected ==
    /\ callPc = "awaitJson"
    /\ bodyPromise.state = "rejected"
    /\ timeoutId' = clearTimeout(timeoutId)
    /\ callPc' = "thrown"
    /\ outcome' = rethrown(bodyPromise.error)
    /\ UNCHANGED <<envKey, elapsed, aborted, fetchPromise, bodyPromise>>
    /\ UNCHANGED clientFrame

\* the steps of the function itself, and those of the environment
ClientStep ==
    \/ CallWithoutKey
    \/ CallFetch
    \/ AfterFetchOk
    \/ AfterFetchNotOk
    \/ AfterFetchRejected
    \/ AfterJsonReturn
    \/ AfterJsonErrors
    \/ AfterJsonRejected

NextClient ==
    \/ CallWithoutKey
    \/ CallFetch
    \/ ClientTick
    \/ FetchResolves
    \/ FetchFails
    \/ TimerFires
    \/ AfterFetchOk
    \/ AfterFetchNotOk
    \/ AfterFetchRejected
    \/ BodySettles
    \/ AfterJsonReturn
    \/ AfterJsonErrors
    \/ AfterJsonRejected

SpecClient == InitClient /\ [][NextClient]_vars

\* The event loop runs a ready continuation and a due timer, and time
\* passes; nothing makes the provider answer or the body arrive.
SpecClientFair ==
    /\ SpecClient
    /\ WF_vars(ClientStep)
    /\ WF_vars(TimerFires)
    /\ WF_vars(ClientTick)

----------------------------------------------------------------------------
(* Properties of apiSportsGet, checked under SpecClientFair *)

CallSettled == callPc \in {"returned", "thrown"}

TimedOut == outcome.kind = "thrown" /\ outcome.message = "API-Sports request timed out after 10s"

\* what holds of every call: the abort fires only on a pending request, at
\* 10 seconds, and ends the call with 'timed out'; a settled call leaves no
\* timer armed; a non-OK status or a non-empty errors field is thrown; what
\* is returned is the parsed body of an OK response without errors
ClientSafety ==
    /\ aborted =>
          /\ elapsed >= REQUEST_TIMEOUT_MS
          /\ fetchPromise = Rejected("AbortError")
          /\ bodyPromise = NoPromise
          /\ timeoutId = "fired"
    /\ timeoutId = "armed" => (callPc = "awaitFetch" /\ elapsed <= REQUEST_TIMEOUT_MS)
    /\ CallSettled =>
          /\ timeoutId \in {"cleared", "fired"}
          /\ TimedOut <=> aborted
          /\ (fetchPromise.state = "resolved" /\ ~fetchPromise.ok) =>
                (outcome.kind = "thrown" /\ outcome.status = fetchPromise.status)
          /\ (fetchPromise.state = "resolved" /\ fetchPromise.ok /\ fetchPromise.json
                /\ fetchPromise.errors > 0) =>
                (outcome.kind = "thrown" /\ outcome.errors = fetchPromise.errors)
          /\ outcome.kind = "returned" =>
                /\ fetchPromise.state = "resolved" /\ fetchPromise.ok
                /\ fetchPromise.json /\ fetchPromise.errors = 0
                /\ bodyPromise = fetchPromise
    /\ (callPc = "awaitFetch" /\ elapsed > REQUEST_TIMEOUT_MS) => fetchPromise.state # "pending"

\* C30: every call of apiSportsGet terminates, by returning the parsed body
\* or by throwing.
C30_Terminates == <>CallSettled

\* the response came in time and was OK, the timer is cleared, and the call
\* is still waiting for the body after the 10 seconds
C30_Witness ==
    /\ callPc = "awaitJson"
    /\ bodyPromise.state = "pending"
    /\ timeoutId = "cleared"
    /\ ~aborted
    /\ elapsed > REQUEST_TIMEOUT_MS

----------------------------------------------------------------------------
(* The explorations together *)

Init ==
    InitLambda \/ InitPmf \/ InitOutcome \/ InitRoute \/ InitCache \/ InitPair \/ InitMatch
        \/ InitClient

Next ==
    NextLambda \/ NextPmf \/ NextOutcome \/ NextRoute \/ NextCache \/ NextPair \/ NextMatch
        \/ NextClient

Spec == Init /\ [][Next]_vars

====
